---- MODULE Spec2Model ----
(***************************************************************************)
(* FlowForge Windows client: the lifecycle controller (Start / Stop /      *)
(* IsRunning, the worker thread and the detached joiners), the CLI wrapper *)
(* and the worker body ClientMain with the operating-system state it       *)
(* mutates (forwarding table, interface rows, NameServer registry values,  *)
(* firewall rules) and the network watcher thread.                         *)
(*                                                                         *)
(* The specifications share the variables:                                 *)
(*   SpecLife  the exported C ABI called from two threads                  *)
(*   SpecSeq   the exported C ABI called from one thread                   *)
(*   SpecCLI   the CLI wrapper's main() and its signal handler             *)
(*   Spec      one run of ClientMain against the OS, with the watcher      *)
(*   SpecDns   a DNS object on its own: Apply with any list, then Revert,  *)
(*             with the registry writes free to fail                       *)
(*   SpecFw    a FirewallRules object on its own: Allow calls, then Revert *)
(*   SpecWatch a NetWatcher on its own, against the millisecond clock      *)
(*   SpecRb    a NetworkRollback object on its own: constructor, Revert    *)
(*             calls, destructor, with every OS call free to fail          *)
(*   SpecRx    the receive callback of the serve loop on its own           *)
(*   SpecNet   Spec with the underlying routes free to disappear           *)
(* SpecSeqFair, SpecCLIFair and SpecWatchFair add the scheduling of the    *)
(* threads to SpecSeq, SpecCLI and SpecWatch; SpecWatchStop adds the       *)
(* termination of reapply and of the wait inside Stop.                     *)
(***************************************************************************)
EXTENDS Integers, Sequences, FiniteSets, TLC

\* ------------------------------------------------------------------ bounds
MaxWorkers == 2
MaxJoiners == 2
\* debounce_ms_ in ticks of the clock, and the external changes of one run.
DebounceTicks == 2
MaxKicks == 3

\* The threads that call the exported functions; in the CLI wrapper "c1" is the
\* main thread and "c2" the thread the signal handler runs on.
Callers == {"c1", "c2"}
Workers == 1..MaxWorkers
Joiners == 1..MaxJoiners

Families == {"v4", "v6"}

VARIABLES
    \* ---- lifecycle controller, Core/Client/Client.cpp:36-38
    g_started,      \* std::atomic<bool> g_started
    g_working,      \* volatile sig_atomic_t g_working
    g_thread,       \* std::thread g_thread: 0 = not joinable, else the worker it holds
    cpc,            \* per API caller: position inside Start / Stop / IsRunning
    cret,           \* per API caller: <<>> or <<function, value>> of the last return
    cnew,           \* per API caller: the worker its Start has just constructed
    csaw,           \* per API caller: what operator= read from g_thread.joinable()
    lpc,            \* per worker thread: phase of the worker lambda
    lret0,          \* per worker thread: the Start that launched it has returned 0
    jpc,            \* per joiner thread: position in the joiner lambda
    jtarget,        \* per joiner thread: the thread it is joining
    procState,      \* "running" | "crashed" (std::terminate) | "exited" (main returned)
    stopSeen,       \* history: some Stop call has been made
    \* ---- CLI wrapper, CLI/Client/Client.cpp
    mainpc,         \* position of main()
    cli_working,    \* bool working
    sigpc,          \* position of the signal handler OnExit
    sigServing,     \* history: the signal arrived while a worker was serving
    \* ---- one run of ClientMain, Core/Client/Client.cpp:207-564
    cfg,            \* the parsed config (fixed for the run)
    os0,            \* the OS state before Start (fixed for the run)
    cmpc,           \* position of ClientMain
    cmrc,           \* "none" or the value ClientMain returned
    live,           \* the undo-records constructed and not yet destroyed, in order
    ctorLog,        \* history: undo-records in the order they were constructed
    dtorLog,        \* history: undo-records in the order their destructors finished
    threw,          \* history: an exception left ClientMain
    tun,            \* the adapter handle: [handle, created]
    fwEntry,        \* FirewallRules: applied_ and its one entry
    rbSnap,         \* NetworkRollback: captured_ and the interface snapshot
    dnsSt,          \* DNS: applied_, touched_*, prev_*_present_, prev_*
    \* ---- the watcher thread, Core/Client/NetWatcher.cpp
    wpc,            \* position of ThreadMain / reapply / ConfigureNetwork
    wfam,           \* the family the running ConfigureNetwork call is for
    wres,           \* history: per family, how its call in the last reapply() ended
    h_stop,         \* manual-reset event
    h_kick,         \* auto-reset event
    subscribed,     \* the two change notifications are registered
    suppressed,     \* NowMs() < suppress_until_ms_
    \* ---- the operating system
    adapterPresent, \* the Wintun adapter exists
    routes,         \* the forwarding table
    iface,          \* per family: the adapter's interface row
    nameServer,     \* per family: the adapter's NameServer registry value
    fwRule,         \* the firewall rule of the generated name
    osFailed,       \* history: some OS call has failed
    cfgOnClosed,    \* history: ConfigureNetwork ran on a closed adapter handle
    \* ---- a FirewallRules object on its own, Core/Client/FirewallRules.cpp
    fwRules,        \* the firewall rule set: rule name -> rule
    entries_,       \* FirewallRules::entries_
    applied_,       \* FirewallRules::applied_
    fwpc,           \* position inside Revert
    fwIt,           \* Revert's loop: how many entries it has visited, plus one
    fwOps,          \* history: what Revert did, in order
    fwAllowed,      \* history: the Allow calls that installed a rule, in order
    fw0,            \* history: the rule set before the first Allow
    fwFailed,       \* history: a firewall call has failed
    fwCall,         \* history: the last Allow call before Revert, <<proto, port, how it ended>>
    fwErr,          \* Revert's local err
    fwStepFailed,   \* history: a step of Revert's loop has failed
    fwResult,       \* how Revert ended: "none", "ok", "runtime_error"
    \* ---- a NetWatcher on its own, against the clock, Core/Client/NetWatcher.cpp
    debounceLeft,   \* what is left of the timeout of the debounce wait
    suppressLeft,   \* suppress_until_ms_ - NowMs(), 0 once it is reached
    sinceKick,      \* history: time since Kick last set the event (capped)
    sinceReapply,   \* history: time since reapply() was last invoked (capped)
    burstKicks,     \* history: kicks accepted since reapply() was last invoked
    extSince,       \* history: one of them came from an external change
    served,         \* history: the kicks the last reapply() call answered
    ownPending,     \* the notification for the write of the last reapply() call:
                    \* "no" (nothing written), "pending", "done" (delivered)
    extLeft,        \* external changes still to come
    stoppc,         \* the caller of Stop: "none", "waiting" in StopCore, "returned"
    \* ---- a NetworkRollback on its own, Core/Client/NetworkRollback.cpp
    \* (captured_ and snap_ are rbSnap; the table and the rows are routes, iface)
    rbpc,           \* position: constructor, idle, inside Revert, destroyed
    rbError,        \* Revert's local 'error'
    rbInDtor,       \* the running Revert was called by the destructor
    rbTried,        \* history: the steps the last Revert has run
    rbFails,        \* history: the OS operations that failed in the last Revert
    rbResult,       \* how the last Revert call ended
    \* ---- the receive callback on its own, Core/Client/Client.cpp:520-543
    rxpc,           \* position inside receive_from_net
    rxRing,         \* the Wintun receive ring: the sizes of the packets in it
    rxSize,         \* the size of the caller's buffer
    rxPkt,          \* the size of the packet Recv returned, 0 for a null pointer
    rxBuf,          \* what the call has copied into the caller's buffer, 0 if nothing
    rxRet,          \* << >>, or <<v>> once the call has returned v
    rxFetched,      \* history: packets Recv has handed out
    rxReleased,     \* history: RecvRelease calls
    rxEmpty         \* history: the ring was empty when the call read it

lifeVars == <<g_started, g_thread, cpc, cret, cnew, csaw, lpc, lret0, jpc, jtarget,
              procState, stopSeen>>
cliVars == <<mainpc, cli_working, sigpc, sigServing>>
mainVars == <<cfg, os0, cmpc, cmrc, live, ctorLog, dtorLog, threw, tun, fwEntry, rbSnap,
              dnsSt>>
watchVars == <<wpc, wfam, wres, h_stop, h_kick, subscribed, suppressed>>
osVars == <<adapterPresent, routes, iface, nameServer, fwRule, osFailed, cfgOnClosed>>
fwRevVars == <<fwErr, fwStepFailed, fwResult>>
fwObjVars == <<fwRules, entries_, applied_, fwpc, fwIt, fwOps, fwAllowed, fw0, fwFailed,
               fwCall, fwRevVars>>
clockVars == <<debounceLeft, suppressLeft, sinceKick, sinceReapply, burstKicks, extSince,
               served, ownPending, extLeft>>
rbObjVars == <<rbpc, rbError, rbInDtor, rbTried, rbFails, rbResult>>
rxVars == <<rxpc, rxRing, rxSize, rxPkt, rxBuf, rxRet, rxFetched, rxReleased, rxEmpty>>
auxVars == <<fwObjVars, clockVars, stoppc, rbObjVars, rxVars>>
cmVars == <<mainVars, watchVars, osVars, auxVars>>
cmFixed == <<cfg, os0>>
cmLogs == <<live, ctorLog, dtorLog, threw>>
cmObjs == <<tun, fwEntry, rbSnap, dnsSt>>
lifeRest == <<g_started, g_thread, cpc, cret, cnew, csaw, lpc, lret0, jpc, jtarget,
              stopSeen>>
libVars == <<lifeVars, cliVars, auxVars>>

Alive == procState = "running"

\* IsRunning(): one atomic load of g_started; 1 running, 0 stopped.
IsRunning == IF g_started THEN 1 ELSE 0

FreeWorkers == {w \in Workers : lpc[w] = "none"}
FreeJoiners == {j \in Joiners : jpc[j] = "none"}
Min(S) == CHOOSE x \in S : \A y \in S : x <= y

\* ------------------------------------------------------- API entry (callers)
CallStart(c) ==
    /\ Alive /\ cpc[c] = "idle"
    /\ cpc' = [cpc EXCEPT ![c] = "start_check"]
    /\ cret' = [cret EXCEPT ![c] = <<>>]
    /\ UNCHANGED <<g_started, g_working, g_thread, cnew, csaw, lpc, lret0, jpc,
                   jtarget, procState, stopSeen>>
    /\ UNCHANGED cmVars

CallStop(c) ==
    /\ Alive /\ cpc[c] = "idle"
    /\ cpc' = [cpc EXCEPT ![c] = "stop_check"]
    /\ stopSeen' = TRUE
    /\ cret' = [cret EXCEPT ![c] = <<>>]
    /\ UNCHANGED <<g_started, g_working, g_thread, cnew, csaw, lpc, lret0, jpc,
                   jtarget, procState>>
    /\ UNCHANGED cmVars

\* ------------------------------------------------------------------- Start
\* if (g_started.load()) return -1;
StartCheck(c) ==
    /\ Alive /\ cpc[c] = "start_check"
    /\ IF g_started
         THEN /\ cpc' = [cpc EXCEPT ![c] = "idle"]
              /\ cret' = [cret EXCEPT ![c] = <<"Start", -1>>]
         ELSE /\ cpc' = [cpc EXCEPT ![c] = "start_work"]
              /\ cret' = cret
    /\ UNCHANGED <<g_started, g_working, g_thread, cnew, csaw, lpc, lret0, jpc, jtarget,
                   procState, stopSeen>>
    /\ UNCHANGED <<cliVars, cmVars>>

\* std::string config = cfg; g_working = 1;
StartSetWorking(c) ==
    /\ Alive /\ cpc[c] = "start_work"
    /\ g_working' = 1
    /\ cpc' = [cpc EXCEPT ![c] = "start_thread"]
    /\ UNCHANGED <<g_started, g_thread, cret, cnew, csaw, lpc, lret0, jpc, jtarget,
                   procState, stopSeen>>
    /\ UNCHANGED <<cliVars, cmVars>>

\* std::thread([config]{...}): the temporary is constructed, the worker starts.
StartCreate(c) ==
    /\ Alive /\ cpc[c] = "start_thread"
    /\ FreeWorkers # {}
    /\ LET w == Min(FreeWorkers) IN
         /\ lpc' = [lpc EXCEPT ![w] = "init"]
         /\ cnew' = [cnew EXCEPT ![c] = w]
    /\ cpc' = [cpc EXCEPT ![c] = "start_joinable"]
    /\ UNCHANGED <<g_started, g_working, g_thread, cret, csaw, lret0, jpc, jtarget,
                   procState, stopSeen>>
    /\ UNCHANGED <<cliVars, cmVars>>

\* g_thread = <temporary>: thread::operator=(thread&&) first reads joinable() ...
StartReadJoinable(c) ==
    /\ Alive /\ cpc[c] = "start_joinable"
    /\ csaw' = [csaw EXCEPT ![c] = (g_thread # 0)]
    /\ cpc' = [cpc EXCEPT ![c] = "start_assign"]
    /\ UNCHANGED <<g_started, g_working, g_thread, cret, cnew, lpc, lret0, jpc, jtarget,
                   procState, stopSeen>>
    /\ UNCHANGED <<cliVars, cmVars>>

\* ... and calls std::terminate() if it was joinable, else takes the new handle.
StartAssign(c) ==
    /\ Alive /\ cpc[c] = "start_assign"
    /\ IF csaw[c]
         THEN /\ procState' = "crashed"
              /\ UNCHANGED <<g_thread, cpc>>
         ELSE /\ g_thread' = cnew[c]
              /\ cpc' = [cpc EXCEPT ![c] = "start_store"]
              /\ procState' = procState
    /\ UNCHANGED <<g_started, g_working, cret, cnew, csaw, lpc, lret0, jpc, jtarget,
                   stopSeen>>
    /\ UNCHANGED <<cliVars, cmVars>>

\* g_started.store(true); return 0;
StartStore(c) ==
    /\ Alive /\ cpc[c] = "start_store"
    /\ g_started' = TRUE
    /\ cpc' = [cpc EXCEPT ![c] = "idle"]
    /\ cret' = [cret EXCEPT ![c] = <<"Start", 0>>]
    /\ lret0' = [lret0 EXCEPT ![cnew[c]] = TRUE]
    /\ cnew' = [cnew EXCEPT ![c] = 0]
    /\ UNCHANGED <<g_working, g_thread, csaw, lpc, jpc, jtarget, procState, stopSeen>>
    /\ UNCHANGED <<cliVars, cmVars>>

\* -------------------------------------------------------------------- Stop
\* Stop without its guard: it goes on to clear the flag whatever g_started holds.
StopCheckSkipped(c) ==
    /\ Alive /\ cpc[c] = "stop_check"
    /\ cpc' = [cpc EXCEPT ![c] = "stop_flag"]
    /\ cret' = cret
    /\ UNCHANGED <<g_started, g_working, g_thread, cnew, csaw, lpc, lret0, jpc, jtarget,
                   procState, stopSeen>>
    /\ UNCHANGED <<cliVars, cmVars>>

\* if (!g_started.load()) return -2;
StopCheck(c) ==
    /\ Alive /\ cpc[c] = "stop_check"
    /\ IF ~g_started
         THEN /\ cpc' = [cpc EXCEPT ![c] = "idle"]
              /\ cret' = [cret EXCEPT ![c] = <<"Stop", -2>>]
         ELSE /\ cpc' = [cpc EXCEPT ![c] = "stop_flag"]
              /\ cret' = cret
    /\ UNCHANGED <<g_started, g_working, g_thread, cnew, csaw, lpc, lret0, jpc, jtarget,
                   procState, stopSeen>>
    /\ UNCHANGED <<cliVars, cmVars>>

\* g_working = 0;
StopClearWorking(c) ==
    /\ Alive /\ cpc[c] = "stop_flag"
    /\ g_working' = 0
    /\ cpc' = [cpc EXCEPT ![c] = "stop_spawn"]
    /\ UNCHANGED <<g_started, g_thread, cret, cnew, csaw, lpc, lret0, jpc, jtarget,
                   procState, stopSeen>>
    /\ UNCHANGED <<cliVars, cmVars>>

\* std::thread([]{...}).detach(); return 0;
StopSpawnJoiner(c) ==
    /\ Alive /\ cpc[c] = "stop_spawn"
    /\ FreeJoiners # {}
    /\ jpc' = [jpc EXCEPT ![Min(FreeJoiners)] = "check"]
    /\ cpc' = [cpc EXCEPT ![c] = "idle"]
    /\ cret' = [cret EXCEPT ![c] = <<"Stop", 0>>]
    /\ UNCHANGED <<g_started, g_working, g_thread, cnew, csaw, lpc, lret0, jtarget,
                   procState, stopSeen>>
    /\ UNCHANGED <<cliVars, cmVars>>

\* ------------------------------------------------------------------ joiner
\* if (g_thread.joinable()) ...
JoinerCheck(j) ==
    /\ Alive /\ jpc[j] = "check"
    /\ IF g_thread # 0
         THEN /\ jpc' = [jpc EXCEPT ![j] = "join"]
              /\ jtarget' = [jtarget EXCEPT ![j] = g_thread]
         ELSE /\ jpc' = [jpc EXCEPT ![j] = "store"]
              /\ jtarget' = jtarget
    /\ UNCHANGED <<g_started, g_working, g_thread, cpc, cret, cnew, csaw, lpc, lret0,
                   procState, stopSeen>>
    /\ UNCHANGED <<cliVars, cmVars>>

\* g_thread.join(): returns once the worker has finished; a join of a handle
\* another joiner has already joined raises system_error in a detached thread.
JoinerJoin(j) ==
    /\ Alive /\ jpc[j] = "join"
    /\ lpc[jtarget[j]] = "done"
    /\ IF g_thread = jtarget[j]
         THEN /\ g_thread' = 0
              /\ jpc' = [jpc EXCEPT ![j] = "store"]
              /\ procState' = procState
         ELSE /\ procState' = "crashed"
              /\ UNCHANGED <<g_thread, jpc>>
    /\ UNCHANGED <<g_started, g_working, cpc, cret, cnew, csaw, lpc, lret0, jtarget,
                   stopSeen>>
    /\ UNCHANGED <<cliVars, cmVars>>

\* g_started.store(false);
JoinerStore(j) ==
    /\ Alive /\ jpc[j] = "store"
    /\ g_started' = FALSE
    /\ jpc' = [jpc EXCEPT ![j] = "none"]
    /\ UNCHANGED <<g_working, g_thread, cpc, cret, cnew, csaw, lpc, lret0, jtarget,
                   procState, stopSeen>>
    /\ UNCHANGED <<cliVars, cmVars>>

\* ----------------------------------------------- worker thread (its phases)
\* The worker lambda of Start: ClientMain(config); g_started.store(false).
\* ClientMain is followed here by phase only; Spec follows it statement by
\* statement.
LInitOk(w) ==
    /\ Alive /\ lpc[w] = "init"
    /\ lpc' = [lpc EXCEPT ![w] = "serve"]
    /\ UNCHANGED <<g_started, g_working, g_thread, cpc, cret, cnew, csaw, lret0, jpc,
                   jtarget, procState, stopSeen>>
    /\ UNCHANGED <<cliVars, cmVars>>

\* An early "return 1": before any undo-record exists (elevation, driver,
\* sockets), with only the firewall record (plugin, adapter), or with all four
\* (session, connect).
LInitFail(w) ==
    /\ Alive /\ lpc[w] = "init"
    /\ \E p \in {"store", "fw", "nw"} : lpc' = [lpc EXCEPT ![w] = p]
    /\ UNCHANGED <<g_started, g_working, g_thread, cpc, cret, cnew, csaw, lret0, jpc,
                   jtarget, procState, stopSeen>>
    /\ UNCHANGED <<cliVars, cmVars>>

\* An exception leaves ClientMain and the thread function: std::terminate().
LInitThrow(w) ==
    /\ Alive /\ lpc[w] = "init"
    /\ procState' = "crashed"
    /\ UNCHANGED <<g_started, g_working, g_thread, cpc, cret, cnew, csaw, lpc, lret0,
                   jpc, jtarget, stopSeen>>
    /\ UNCHANGED <<cliVars, cmVars>>

\* Client_Serve returns: the plugin has read *stop_flag == 0 ...
LServeObserveStop(w) ==
    /\ Alive /\ lpc[w] = "serve"
    /\ g_working = 0
    /\ lpc' = [lpc EXCEPT ![w] = "stopping"]
    /\ UNCHANGED <<g_started, g_working, g_thread, cpc, cret, cnew, csaw, lret0, jpc,
                   jtarget, procState, stopSeen>>
    /\ UNCHANGED <<cliVars, cmVars>>

\* ... or it returns on its own (the transport failed).
LServeReturn(w) ==
    /\ Alive /\ lpc[w] = "serve"
    /\ g_working = 1
    /\ lpc' = [lpc EXCEPT ![w] = "selfstop"]
    /\ UNCHANGED <<g_started, g_working, g_thread, cpc, cret, cnew, csaw, lret0, jpc,
                   jtarget, procState, stopSeen>>
    /\ UNCHANGED <<cliVars, cmVars>>

\* The phase after p on the way out of ClientMain: Client_Disconnect .. WSACleanup,
\* then ~NetWatcher, ~DNS, ~NetworkRollback, ~FirewallRules.
LAfter(p) ==
    CASE p = "stopping" -> "nw"
      [] p = "selfstop" -> "nw"
      [] p = "nw"       -> "dns"
      [] p = "dns"      -> "rb"
      [] p = "rb"       -> "fw"
      [] p = "fw"       -> "store"

LTeardownStep(w) ==
    /\ Alive /\ lpc[w] \in {"stopping", "selfstop", "nw", "dns", "rb", "fw"}
    /\ lpc' = [lpc EXCEPT ![w] = LAfter(lpc[w])]
    /\ UNCHANGED <<g_started, g_working, g_thread, cpc, cret, cnew, csaw, lret0, jpc,
                   jtarget, procState, stopSeen>>
    /\ UNCHANGED <<cliVars, cmVars>>

\* The whole way out of ClientMain in one step, for the specification that
\* follows the worker by phase only.
LTeardown(w) ==
    /\ Alive /\ lpc[w] \in {"stopping", "selfstop", "nw", "fw"}
    /\ lpc' = [lpc EXCEPT ![w] = "store"]
    /\ UNCHANGED <<g_started, g_working, g_thread, cpc, cret, cnew, csaw, lret0, jpc,
                   jtarget, procState, stopSeen>>
    /\ UNCHANGED <<cliVars, cmVars>>

\* g_started.store(false); the thread function returns.
LStoreFalse(w) ==
    /\ Alive /\ lpc[w] = "store"
    /\ g_started' = FALSE
    /\ lpc' = [lpc EXCEPT ![w] = "done"]
    /\ UNCHANGED <<g_working, g_thread, cpc, cret, cnew, csaw, lret0, jpc, jtarget,
                   procState, stopSeen>>
    /\ UNCHANGED <<cliVars, cmVars>>

\* Teardown of worker w is complete: every undo-record it built is reverted.
LTornDown(w) == lpc[w] \in {"none", "store", "done"}

\* -------------------------------------------------------------- CLI wrapper
\* main(): Start(config.data()); the caller is the main thread.
MainStart ==
    /\ mainpc = "start"
    /\ CallStart("c1")
    /\ mainpc' = "in_start"
    /\ UNCHANGED <<cli_working, sigpc, sigServing>>

\* std::signal(SIGINT, OnExit); std::signal(SIGTERM, OnExit);
MainInstallHandlers ==
    /\ Alive /\ mainpc = "in_start" /\ cpc["c1"] = "idle"
    /\ mainpc' = "loop"
    /\ UNCHANGED <<cli_working, sigpc, sigServing>>
    /\ UNCHANGED <<lifeVars, g_working>>
    /\ UNCHANGED cmVars

\* SIGINT / SIGTERM is delivered: OnExit runs and calls Stop().
SignalArrives ==
    /\ mainpc = "loop" /\ sigpc = "none"
    /\ CallStop("c2")
    /\ sigpc' = "in_stop"
    /\ sigServing' = (\E w \in Workers : lpc[w] = "serve")
    /\ UNCHANGED <<mainpc, cli_working>>

\* OnExit: working = false; after Stop() has returned.
OnExitClearWorking ==
    /\ Alive /\ sigpc = "in_stop" /\ cpc["c2"] = "idle"
    /\ cli_working' = FALSE
    /\ sigpc' = "done"
    /\ UNCHANGED <<mainpc, sigServing>>
    /\ UNCHANGED <<lifeVars, g_working>>
    /\ UNCHANGED cmVars

\* while (working) sleep_for(1s); falls out of the loop and main returns: the
\* process ends, whatever its other threads are doing.
MainReturn ==
    /\ Alive /\ mainpc = "loop" /\ ~cli_working
    /\ mainpc' = "returned"
    /\ procState' = "exited"
    /\ UNCHANGED <<cli_working, sigpc, sigServing>>
    /\ UNCHANGED <<g_started, g_working, g_thread, cpc, cret, cnew, csaw, lpc, lret0,
                   jpc, jtarget, stopSeen>>
    /\ UNCHANGED cmVars

\* =================================================== ClientMain and the OS
\* ------------------------------------------------------------------ config
\* "'mtu' must be in [576..9200]" (ClientMain) and "plan.mtu < 576 ||
\* plan.mtu > 9000" (SetAddressPlan).
MinMtu == 576
MaxMtuConfig == 9200
MaxMtuPlan == 9000

\* The dns lists a config may carry: "a4" an IPv4 literal, "a6" an IPv6 literal,
\* "bad" neither.
DnsLists == {<< >>, <<"a4">>, <<"a6", "a4">>, <<"a4", "bad">>}

\* The configs of the model: the valid ones for each server family and dns
\* list, and one config for each way of being rejected.
ValidConfigs ==
    [jsonOk : {TRUE}, serverFam : Families, planValid : {TRUE}, mtu : {1400},
     dns : {<<"a4">>, <<"a6", "a4">>}]

RejectedConfigs ==
    [jsonOk : {FALSE}, serverFam : {"v4"}, planValid : {TRUE}, mtu : {1400},
     dns : {<<"a4">>}]
    \cup [jsonOk : {TRUE}, serverFam : {"v4"}, planValid : {FALSE}, mtu : {1400},
          dns : {<<"a4">>}]
    \cup [jsonOk : {TRUE}, serverFam : {"v4"}, planValid : {TRUE}, mtu : {575, 9100},
          dns : {<<"a4">>}]
    \cup [jsonOk : {TRUE}, serverFam : {"v4"}, planValid : {TRUE}, mtu : {1400},
          dns : {<< >>, <<"a4", "bad">>}]

Configs == ValidConfigs \cup RejectedConfigs

\* ClientMain's own validation: the JSON parses with every field, the port is
\* in range (jsonOk) and the mtu is in [576..9200].
ConfigAccepted(c) == c.jsonOk /\ ~(c.mtu < MinMtu \/ c.mtu > MaxMtuConfig)

\* Network::SetAddressPlan accepts the plan: the four literals parse and the
\* mtu is not outside [576..9000].
PlanAccepted(c) == c.planValid /\ ~(c.mtu < MinMtu \/ c.mtu > MaxMtuPlan)

IsIPv4(a) == a = "a4"
IsIPv6(a) == a = "a6"

\* The split of DNS::Apply with its family test removed: every address counts
\* for every family.
DnsOfAnyFamily(list, f) == list

\* The addresses of a list that belong to family f, as DNS::Apply splits them.
DnsOfFamily(list, f) ==
    IF f = "v4" THEN SelectSeq(list, IsIPv4) ELSE SelectSeq(list, IsIPv6)

\* The validation of DNS::Apply stopped after the first entry.
DnsHeadInvalid(list) == list # << >> /\ ~IsIPv4(list[1]) /\ ~IsIPv6(list[1])

\* Some entry of the list is neither an IPv4 nor an IPv6 literal.
DnsHasInvalid(list) == \E i \in 1..Len(list) : ~IsIPv4(list[i]) /\ ~IsIPv6(list[i])

\* --------------------------------------------------------- forwarding table
\* A row: destination "server" (/32 or /128), "lo" and "hi" (the two /1
\* halves), "default" (/0); interface "tun" (our adapter) or "nic"; next hop.
Dests == {"server", "lo", "hi", "default"}

\* The /1 half the server's address lies in.
ServerHalf == "hi"

PrefixRank(d) == CASE d = "server" -> 2 [] d \in {"lo", "hi"} -> 1 [] OTHER -> 0

RouteKey(r) == <<r.fam, r.dst, r.ifc, r.nh>>

\* GetBestRoute2 towards the server: the rows that cover it, longest prefix
\* first, lowest metric next.
CoveringRoutes(f) ==
    {r \in routes : r.fam = f /\ r.dst \in {"server", ServerHalf, "default"}}

BestRoutes(f) ==
    {r \in CoveringRoutes(f) :
        \A q \in CoveringRoutes(f) :
            \/ PrefixRank(r.dst) > PrefixRank(q.dst)
            \/ PrefixRank(r.dst) = PrefixRank(q.dst) /\ r.metric <= q.metric}

\* fallback_default_route_excluding: the /0 rows off our adapter, lowest metric.
FallbackDefaults(f) ==
    {r \in routes :
        /\ r.fam = f /\ r.dst = "default" /\ r.ifc # "tun"
        /\ \A q \in routes :
              (q.fam = f /\ q.dst = "default" /\ q.ifc # "tun") => r.metric <= q.metric}

\* The row add_or_update_host_route_via wants: host route to the server on the
\* interface and next hop of 'via', metric 1, NETMGMT.
DesiredHostRoute(f, via) ==
    [fam |-> f, dst |-> "server", ifc |-> via.ifc, nh |-> via.nh,
     proto |-> "NETMGMT", metric |-> 1]

\* The row add_route_via_gateway builds for one half: our adapter, the peer as
\* gateway, metric 1, NETMGMT.
SplitRoute(f, half) ==
    [fam |-> f, dst |-> half, ifc |-> "tun", nh |-> "peer",
     proto |-> "NETMGMT", metric |-> 1]

\* CreateIpForwardEntry2(row): ERROR_OBJECT_ALREADY_EXISTS leaves the table
\* alone when a row of the same destination, interface and next hop exists.
CreateRoute(tbl, row) ==
    IF \E r \in tbl : RouteKey(r) = RouteKey(row) THEN tbl ELSE tbl \cup {row}

\* SetIpForwardEntry2(row): replaces the row of the same destination,
\* interface and next hop.
SetRoute(tbl, row) == {r \in tbl : RouteKey(r) # RouteKey(row)} \cup {row}

\* The rows RemoveSplitDefaults_ selects for a family.
IsOurSplitDefault(r, f) ==
    r.ifc = "tun" /\ r.proto = "NETMGMT" /\ r.fam = f /\ r.dst \in {"lo", "hi"}

\* The rows RemovePinnedRouteToServer_ selects: any interface.
IsPinnedToServer(r, f) == r.proto = "NETMGMT" /\ r.fam = f /\ r.dst = "server"

\* The rows a family may hold before Start: a default route and a host route to
\* the server, both through the physical interface and not ours.
InitialRouteUniverse(f) ==
    {[fam |-> f, dst |-> "default", ifc |-> "nic", nh |-> "gw", proto |-> "OTHER",
      metric |-> 5],
     [fam |-> f, dst |-> "server", ifc |-> "nic", nh |-> "gw", proto |-> "OTHER",
      metric |-> 5]}

\* ------------------------------------------------------- interface and DNS
\* The interface row of a family as Windows creates it.
IfaceDefault == [auto |-> TRUE, metric |-> 25, mtu |-> 1500, addr |-> FALSE]

\* set_if_mtu, add_ip_address_on_if, set_if_metric(1) of ConfigureNetwork.
IfaceConfigured(row, mtu) ==
    [auto |-> FALSE, metric |-> 1, mtu |-> mtu, addr |-> TRUE]

\* restore_iface: metric mode, metric and MTU from the snapshot; the address
\* stays.
IfaceRestored(row, base) ==
    [row EXCEPT !.auto = base.auto, !.metric = base.metric, !.mtu = base.mtu]

NsAbsent == [present |-> FALSE, text |-> ""]
NsValue(t) == [present |-> TRUE, text |-> t]

\* The NameServer values an interface may hold before Start.
InitialNameServers == {NsAbsent, NsValue(""), NsValue("orig")}

\* WriteNameServer: an empty text deletes the value, any other text sets it.
WriteNameServer(text) == IF text = "" THEN NsAbsent ELSE NsValue(text)

\* DNS::Revert for one family: write back prev_ if prev_present_, else unset.
DnsRestored(st, f) ==
    IF st.prevPresent[f] THEN WriteNameServer(st.prev[f]) ELSE WriteNameServer("")

DnsFresh ==
    [applied |-> FALSE, touched |-> [f \in Families |-> FALSE],
     prevPresent |-> [f \in Families |-> FALSE], prev |-> [f \in Families |-> ""]]

\* ----------------------------------------------------------- firewall rule
\* The rule of the generated name: its eleven fields read by ReadSnapshot
\* ("fields") and the properties ReadSnapshot does not read ("other": local
\* ports and addresses, grouping, edge traversal, ...).
FwAbsent == [present |-> FALSE, fields |-> "none", other |-> "default"]

InitialFwRules ==
    {FwAbsent, [present |-> TRUE, fields |-> "user", other |-> "custom"]}

\* UpsertOutbound: RemoveIfExists, then Add of a rule built from the config.
UpsertOutbound == [present |-> TRUE, fields |-> "ours", other |-> "default"]

\* ReadSnapshot: present and the eleven fields.
ReadSnapshot(rule) == [present |-> rule.present, fields |-> rule.fields]

\* RestoreFromSnapshot building the rule from the config instead of from the
\* snapshot.
RestoreAsInstalled(snap) == UpsertOutbound

\* RestoreFromSnapshot: RemoveIfExists, then Add of a rule built from the
\* eleven snapshot fields.
RestoreFromSnapshot(snap) ==
    [present |-> TRUE, fields |-> snap.fields, other |-> "default"]

FwFresh ==
    [applied |-> FALSE, had_before |-> FALSE,
     snapshot |-> [present |-> FALSE, fields |-> "none"]]

RbFresh ==
    [captured |-> FALSE, have |-> [f \in Families |-> FALSE],
     base |-> [f \in Families |-> IfaceDefault]]

\* ------------------------------------------- a FirewallRules object alone
\* The (protocol, port) pairs Allow is called with; port 0 is refused.
FwProtos == {"TCP", "UDP"}
FwPorts == {0, 443, 8443}

\* MakeRuleName: prefix, " Out TCP to " or " Out UDP to ", server, ":", port.
\* The name is a different one for each protocol and port.
MakeRuleName(proto, port) == <<IF proto = "TCP" THEN "TCP" ELSE "UDP", port>>

RuleNames == {MakeRuleName(pr, po) : pr \in FwProtos, po \in FwPorts \ {0}}

\* Revert visiting the entries first to last.
RevertOrderForward(n) == [k \in 1..n |-> k]

\* Revert's loop, entries_.rbegin() .. rend(): the index of the entry visited
\* k-th, of n entries.
RevertOrder(n) == [k \in 1..n |-> n + 1 - k]

\* Everything but the FirewallRules object and its rule set.
fwRest == <<lifeVars, g_working, cliVars, mainVars, watchVars, osVars, clockVars,
            stoppc, rbObjVars, rxVars>>

\* Allow without its loop over entries_.
AlreadyPresentNever(proto, port) == FALSE

\* Allow's loop over entries_: an entry of this protocol and port exists.
AlreadyPresent(proto, port) ==
    \E i \in 1..Len(entries_) : entries_[i].proto = proto /\ entries_[i].port = port

\* Allow(proto, port): port 0 throws; a (proto, port) already in entries_
\* returns at once; else ReadSnapshot and UpsertOutbound (RemoveIfExists, Add),
\* and the entry is appended. When Add fails the old rule is already removed,
\* the exception leaves Allow and no entry is kept.
FwAllow(proto, port) ==
    /\ fwpc = "idle"
    /\ port # 0
    /\ ~AlreadyPresent(proto, port)
    /\ LET name == MakeRuleName(proto, port)
           snap == ReadSnapshot(fwRules[name])
       IN  \/ /\ fwRules' = [fwRules EXCEPT ![name] = UpsertOutbound]
              /\ entries_' = Append(entries_,
                                    [proto |-> proto, port |-> port, name |-> name,
                                     snapshot |-> snap, had_before |-> snap.present,
                                     touched |-> TRUE])
              /\ applied_' = TRUE
              /\ fwAllowed' = Append(fwAllowed, [name |-> name, before |-> fwRules[name]])
              /\ fwFailed' = fwFailed
              /\ fwCall' = <<proto, port, "added">>
           \/ /\ fwRules' = [fwRules EXCEPT ![name] = FwAbsent]
              /\ fwFailed' = TRUE
              /\ fwCall' = <<proto, port, "failed">>
              /\ UNCHANGED <<entries_, applied_, fwAllowed>>
    /\ UNCHANGED <<fwpc, fwIt, fwOps, fw0, fwRevVars, fwRest>>

\* Allow that changes nothing: port 0 (invalid_argument) or a (proto, port)
\* that is already in entries_ (idempotent return). The caller goes on.
FwAllowNoop(proto, port) ==
    /\ fwpc = "idle"
    /\ port = 0 \/ AlreadyPresent(proto, port)
    /\ fwpc' = "idle"
    /\ fwCall' = <<proto, port, IF port = 0 THEN "invalid_argument" ELSE "present">>
    /\ UNCHANGED <<fwRules, entries_, applied_, fwIt, fwOps, fwAllowed, fw0, fwFailed,
                   fwRevVars, fwRest>>

\* Revert: nothing unless applied_; else the loop starts at the last entry.
FwRevertBegin ==
    /\ fwpc = "idle"
    /\ fwpc' = IF applied_ THEN "remove" ELSE "done"
    /\ fwIt' = 1
    /\ fwErr' = FALSE
    /\ fwResult' = IF applied_ THEN "none" ELSE "ok"
    /\ fwCall' = << >>
    /\ UNCHANGED <<fwRules, entries_, applied_, fwOps, fwAllowed, fw0, fwFailed,
                   fwStepFailed, fwRest>>

\* RemoveIfExists(name) as Revert calls it, the outcomes as <<rule left, a
\* call failed, an exception left RemoveIfExists>>: the rule is removed; or
\* rules->Remove fails, its HRESULT is cast to void and the rule stays; or
\* GetRules throws before anything is touched.
RemoveIfExists(rule) ==
    {<<FwAbsent, FALSE, FALSE>>, <<rule, TRUE, FALSE>>, <<rule, TRUE, TRUE>>}

\* The loop body, first half: if (it->touched) RemoveIfExists(it->name), in a
\* try whose catch sets err.
FwRevertRemove ==
    /\ fwpc = "remove"
    /\ LET e == entries_[RevertOrder(Len(entries_))[fwIt]]
       IN  IF e.touched
             THEN \E o \in RemoveIfExists(fwRules[e.name]) :
                     /\ fwRules' = [fwRules EXCEPT ![e.name] = o[1]]
                     /\ fwOps' = Append(fwOps, <<"remove", e.name>>)
                     /\ fwFailed' = (fwFailed \/ o[2])
                     /\ fwStepFailed' = (fwStepFailed \/ o[2])
                     /\ fwErr' = (fwErr \/ o[3])
             ELSE UNCHANGED <<fwRules, fwOps, fwFailed, fwStepFailed, fwErr>>
    /\ fwpc' = "restore"
    /\ UNCHANGED <<entries_, applied_, fwIt, fwAllowed, fw0, fwCall, fwResult, fwRest>>

\* The loop body, second half: if (it->had_before) RestoreFromSnapshot, whose
\* Add may fail (the error is remembered and the loop goes on); ++it.
FwRevertRestore ==
    /\ fwpc = "restore"
    /\ LET e == entries_[RevertOrder(Len(entries_))[fwIt]]
       IN  IF e.had_before
             THEN /\ fwOps' = Append(fwOps, <<"restore", e.name>>)
                  /\ \/ /\ fwRules' = [fwRules EXCEPT
                                         ![e.name] = RestoreFromSnapshot(e.snapshot)]
                        /\ UNCHANGED <<fwFailed, fwStepFailed, fwErr>>
                     \/ /\ fwRules' = fwRules
                        /\ fwFailed' = TRUE
                        /\ fwStepFailed' = TRUE
                        /\ fwErr' = TRUE
             ELSE UNCHANGED <<fwRules, fwOps, fwFailed, fwStepFailed, fwErr>>
    /\ fwIt' = fwIt + 1
    /\ fwpc' = IF fwIt = Len(entries_) THEN "clear" ELSE "remove"
    /\ UNCHANGED <<entries_, applied_, fwAllowed, fw0, fwCall, fwResult, fwRest>>

\* The end of Revert: if (err) throw std::runtime_error(...).
RevertResult(err) == IF err THEN "runtime_error" ELSE "ok"

\* entries_.clear(); applied_ = false; Revert returns (or throws if a step
\* failed).
FwRevertEnd ==
    /\ fwpc = "clear"
    /\ entries_' = << >>
    /\ applied_' = FALSE
    /\ fwpc' = "done"
    /\ fwResult' = RevertResult(fwErr)
    /\ UNCHANGED <<fwRules, fwIt, fwOps, fwAllowed, fw0, fwFailed, fwCall, fwErr,
                   fwStepFailed, fwRest>>

\* ------------------------------------------------- ClientMain, initialization
\* "return rc": the scope is left, the destructors of the live undo-records run.
ReturnWith(rc) == cmrc' = rc /\ cmpc' = "unwind"

\* Wintun.Close(adapter): the handle is closed; an adapter that this run created
\* is removed with its interface rows, its routes and its registry values.
CloseAdapter ==
    /\ tun' = [tun EXCEPT !.handle = "closed"]
    /\ IF tun.created
         THEN /\ adapterPresent' = FALSE
              /\ routes' = {r \in routes : r.ifc # "tun"}
              /\ iface' = [f \in Families |-> IfaceDefault]
              /\ nameServer' = [f \in Families |-> NsAbsent]
         ELSE UNCHANGED <<adapterPresent, routes, iface, nameServer>>

\* if (!IsElevated()) return 1;
CmElevation ==
    /\ Alive /\ cmpc = "elev"
    /\ \/ cmpc' = "parse" /\ cmrc' = cmrc
       \/ ReturnWith(1)
    /\ UNCHANGED <<cmFixed, cmLogs, cmObjs, watchVars, osVars, libVars, g_working>>

\* boost::json::parse .. the basic validation: throws std::runtime_error.
CmParse ==
    /\ Alive /\ cmpc = "parse"
    /\ cmpc' = IF ConfigAccepted(cfg) THEN "wintun" ELSE "thrown"
    /\ UNCHANGED <<cmFixed, cmrc, cmLogs, cmObjs, watchVars, osVars, libVars, g_working>>

\* if (!Wintun.load()) return 1;
CmLoadWintun ==
    /\ Alive /\ cmpc = "wintun"
    /\ \/ cmpc' = "wsa" /\ cmrc' = cmrc
       \/ ReturnWith(1)
    /\ UNCHANGED <<cmFixed, cmLogs, cmObjs, watchVars, osVars, libVars, g_working>>

\* if (WSAStartup(...) != 0) return 1;
CmWSAStartup ==
    /\ Alive /\ cmpc = "wsa"
    /\ \/ cmpc' = "fwctor" /\ cmrc' = cmrc
       \/ ReturnWith(1)
    /\ UNCHANGED <<cmFixed, cmLogs, cmObjs, watchVars, osVars, libVars, g_working>>

\* FirewallRules fw(cfg);
CmFwCtor ==
    /\ Alive /\ cmpc = "fwctor"
    /\ cmpc' = "allow"
    /\ live' = Append(live, "fw")
    /\ ctorLog' = Append(ctorLog, "fw")
    /\ fwEntry' = FwFresh
    /\ UNCHANGED <<cmFixed, cmrc, dtorLog, threw, tun, rbSnap, dnsSt, watchVars, osVars,
                   libVars, g_working>>

\* FirewallRules::Allow with its call removed: ClientMain goes on to the plugin
\* with no rule installed.
AllowSkipped ==
    /\ Alive /\ cmpc = "allow"
    /\ cmpc' = "plugin"
    /\ UNCHANGED <<cmFixed, cmrc, cmLogs, cmObjs, watchVars, osVars, libVars, g_working>>

\* fw.Allow(TCP, port): ReadSnapshot, UpsertOutbound (RemoveIfExists, Add), then
\* the entry is recorded. When Add fails the old rule is already removed and
\* UpsertOutbound's exception leaves Allow and ClientMain.
CmFwAllow ==
    /\ Alive /\ cmpc = "allow"
    /\ \/ /\ fwRule' = UpsertOutbound
          /\ fwEntry' = [applied |-> TRUE, had_before |-> fwRule.present,
                         snapshot |-> ReadSnapshot(fwRule)]
          /\ cmpc' = "plugin"
          /\ osFailed' = osFailed
       \/ /\ fwRule' = FwAbsent
          /\ fwEntry' = fwEntry
          /\ cmpc' = "thrown"
          /\ osFailed' = TRUE
    /\ UNCHANGED <<cmFixed, cmrc, cmLogs, tun, rbSnap, dnsSt, watchVars, adapterPresent,
                   routes, iface, nameServer, cfgOnClosed, libVars, g_working>>

\* PluginWrapper::Load; on failure WSACleanup(); return 1;
CmLoadPlugin ==
    /\ Alive /\ cmpc = "plugin"
    /\ \/ cmpc' = "adapter" /\ cmrc' = cmrc
       \/ ReturnWith(1)
    /\ UNCHANGED <<cmFixed, cmLogs, cmObjs, watchVars, osVars, libVars, g_working>>

\* Wintun.Open, else Wintun.Create; when both fail Unload, WSACleanup, return 1.
CmOpenAdapter ==
    /\ Alive /\ cmpc = "adapter"
    /\ IF adapterPresent
         THEN /\ tun' = [handle |-> "open", created |-> FALSE]
              /\ cmpc' = "plan" /\ cmrc' = cmrc
              /\ UNCHANGED <<adapterPresent, osFailed>>
         ELSE \/ /\ tun' = [handle |-> "open", created |-> TRUE]
                 /\ adapterPresent' = TRUE
                 /\ cmpc' = "plan" /\ cmrc' = cmrc
                 /\ osFailed' = osFailed
              \/ /\ ReturnWith(1)
                 /\ osFailed' = TRUE
                 /\ UNCHANGED <<tun, adapterPresent>>
    /\ UNCHANGED <<cmFixed, cmLogs, fwEntry, rbSnap, dnsSt, watchVars, routes, iface,
                   nameServer, fwRule, cfgOnClosed, libVars, g_working>>

\* Network::SetAddressPlan(plan): throws std::invalid_argument.
CmSetAddressPlan ==
    /\ Alive /\ cmpc = "plan"
    /\ cmpc' = IF PlanAccepted(cfg) THEN "rollback" ELSE "thrown"
    /\ UNCHANGED <<cmFixed, cmrc, cmLogs, cmObjs, watchVars, osVars, libVars, g_working>>

\* NetworkRollback rollback(luid, server_ip): CaptureBaseline_ saves the
\* interface rows of both families.
CmRollbackCtor ==
    /\ Alive /\ cmpc = "rollback"
    /\ rbSnap' = [captured |-> TRUE, have |-> [f \in Families |-> TRUE], base |-> iface]
    /\ live' = Append(live, "rollback")
    /\ ctorLog' = Append(ctorLog, "rollback")
    /\ cmpc' = "dnsctor"
    /\ UNCHANGED <<cmFixed, cmrc, dtorLog, threw, tun, fwEntry, dnsSt, watchVars, osVars,
                   libVars, g_working>>

\* DNS dns(luid);
CmDnsCtor ==
    /\ Alive /\ cmpc = "dnsctor"
    /\ cmpc' = "dnsapply"
    /\ live' = Append(live, "dns")
    /\ ctorLog' = Append(ctorLog, "dns")
    /\ dnsSt' = DnsFresh
    /\ UNCHANGED <<cmFixed, cmrc, dtorLog, threw, tun, fwEntry, rbSnap, watchVars, osVars,
                   libVars, g_working>>

\* dns.Apply(dns_w): the snapshot fields are reset, an empty list or an invalid
\* literal throws before any read; then both families are read and the
\* families that have servers are written.
CmDnsApply ==
    /\ Alive /\ cmpc = "dnsapply"
    /\ IF cfg.dns = << >> \/ DnsHasInvalid(cfg.dns)
         THEN /\ dnsSt' = DnsFresh
              /\ cmpc' = "thrown"
              /\ nameServer' = nameServer
         ELSE /\ dnsSt' = [applied |-> TRUE,
                           touched |-> [f \in Families |-> DnsOfFamily(cfg.dns, f) # << >>],
                           prevPresent |-> [f \in Families |-> nameServer[f].present],
                           prev |-> [f \in Families |-> nameServer[f].text]]
              /\ nameServer' = [f \in Families |->
                                  IF DnsOfFamily(cfg.dns, f) # << >>
                                    THEN WriteNameServer("vpn") ELSE nameServer[f]]
              /\ cmpc' = "nw"
    /\ UNCHANGED <<cmFixed, cmrc, cmLogs, tun, fwEntry, rbSnap, watchVars, adapterPresent,
                   routes, iface, fwRule, osFailed, cfgOnClosed, libVars, g_working>>

\* dns.Apply(dns_w) whose SetForFamily of family f throws (OpenInterfaceKey or
\* WriteNameServer fails): both families were read, IPv4 is written before
\* IPv6, so a failure for IPv6 leaves IPv4 written and marked touched; applied_
\* stays false and the exception leaves Apply.
DnsApplyWriteFails(f) ==
    /\ Alive /\ cmpc = "dnsapply"
    /\ cfg.dns # << >> /\ ~DnsHasInvalid(cfg.dns)
    /\ DnsOfFamily(cfg.dns, f) # << >>
    /\ LET written == IF f = "v6" /\ DnsOfFamily(cfg.dns, "v4") # << >> THEN {"v4"} ELSE {}
       IN  /\ dnsSt' = [applied |-> FALSE,
                        touched |-> [g \in Families |-> g \in written],
                        prevPresent |-> [g \in Families |-> nameServer[g].present],
                        prev |-> [g \in Families |-> nameServer[g].text]]
           /\ nameServer' = [g \in Families |->
                               IF g \in written THEN WriteNameServer("vpn")
                               ELSE nameServer[g]]
    /\ cmpc' = "thrown"
    /\ osFailed' = TRUE
    /\ UNCHANGED <<cmFixed, cmrc, cmLogs, tun, fwEntry, rbSnap, watchVars, adapterPresent,
                   routes, iface, fwRule, cfgOnClosed, libVars, g_working>>

\* NetWatcher nw(reapply, 1000ms): StartCore creates the events, subscribes
\* (InitialNotification = FALSE) and creates the thread, or throws.
CmNetWatcherCtor ==
    /\ Alive /\ cmpc = "nw"
    /\ \/ /\ wpc' = "wait" /\ subscribed' = TRUE
          /\ h_stop' = FALSE /\ h_kick' = FALSE
          /\ live' = Append(live, "nw")
          /\ ctorLog' = Append(ctorLog, "nw")
          /\ cmpc' = "session"
          /\ osFailed' = osFailed
       \/ /\ cmpc' = "thrown"
          /\ osFailed' = TRUE
          /\ UNCHANGED <<wpc, subscribed, h_stop, h_kick, live, ctorLog>>
    /\ UNCHANGED <<cmFixed, cmrc, dtorLog, threw, cmObjs, wfam, wres, suppressed, adapterPresent,
                   routes, iface, nameServer, fwRule, cfgOnClosed, libVars, g_working>>

\* Wintun.Start; on failure Close(adapter), Unload, WSACleanup, return 1.
CmStartSession ==
    /\ Alive /\ cmpc = "session"
    /\ \/ /\ cmpc' = "connect" /\ cmrc' = cmrc
          /\ UNCHANGED <<tun, adapterPresent, routes, iface, nameServer, osFailed>>
       \/ /\ CloseAdapter
          /\ ReturnWith(1)
          /\ osFailed' = TRUE
    /\ UNCHANGED <<cmFixed, cmLogs, fwEntry, rbSnap, dnsSt, watchVars, fwRule, cfgOnClosed,
                   libVars, g_working>>

\* Client_Connect; on failure End(sess), Close(adapter), Unload, WSACleanup,
\* return 1.
CmConnect ==
    /\ Alive /\ cmpc = "connect"
    /\ \/ /\ cmpc' = "serve" /\ cmrc' = cmrc
          /\ UNCHANGED <<tun, adapterPresent, routes, iface, nameServer>>
       \/ /\ CloseAdapter
          /\ ReturnWith(1)
    /\ UNCHANGED <<cmFixed, cmLogs, fwEntry, rbSnap, dnsSt, watchVars, fwRule, osFailed,
                   cfgOnClosed, libVars, g_working>>

\* Client_Serve returns rc: 0 once it has read *stop_flag == 0, or any rc on
\* its own.
CmServeReturns ==
    /\ Alive /\ cmpc = "serve"
    /\ \/ g_working = 0 /\ cmrc' = 0
       \/ cmrc' = 1
    /\ cmpc' = "teardown"
    /\ UNCHANGED <<cmFixed, cmLogs, cmObjs, watchVars, osVars, libVars, g_working>>

\* Client_Disconnect, Wintun.End, Wintun.Close(adapter), Unload, WSACleanup;
\* return rc;
CmTeardown ==
    /\ Alive /\ cmpc = "teardown"
    /\ CloseAdapter
    /\ cmpc' = "unwind"
    /\ UNCHANGED <<cmFixed, cmrc, cmLogs, fwEntry, rbSnap, dnsSt, watchVars, fwRule,
                   osFailed, cfgOnClosed, libVars, g_working>>

\* ------------------------------------------- ClientMain, leaving the scope
\* An exception leaves ClientMain and the thread function: std::terminate().
\* Whether the stack is unwound first is implementation-defined.
CmThrowEscapes ==
    /\ Alive /\ cmpc = "thrown"
    /\ threw' = TRUE
    /\ \/ cmpc' = "unwind" /\ procState' = procState
       \/ cmpc' = "terminated" /\ procState' = "crashed"
    /\ UNCHANGED <<cmFixed, cmrc, live, ctorLog, dtorLog, cmObjs, watchVars, osVars,
                   lifeRest, cliVars, auxVars, g_working>>

\* No live undo-record is left: ClientMain has returned, or the unwinding that
\* preceded std::terminate() is over.
CmUnwindDone ==
    /\ Alive /\ cmpc = "unwind" /\ live = << >>
    /\ IF threw
         THEN cmpc' = "terminated" /\ procState' = "crashed"
         ELSE cmpc' = "ret" /\ procState' = procState
    /\ UNCHANGED <<cmFixed, cmrc, cmLogs, cmObjs, watchVars, osVars, lifeRest, cliVars,
                   auxVars, g_working>>

\* The undo-record whose destructor runs next: the one constructed first, as
\* if the locals were destroyed in declaration order.
OldestLive == live[1]

\* The undo-record whose destructor runs next: the one constructed last.
NextToDestroy == live[Len(live)]

\* live without the record that NextToDestroy names.
Destroyed == SelectSeq(live, LAMBDA u : u # NextToDestroy)

\* ~NetWatcher -> StopCore: both notifications are cancelled, the stop event is
\* set ...
DNwStop ==
    /\ Alive /\ cmpc = "unwind" /\ live # << >> /\ NextToDestroy = "nw"
    /\ subscribed' = FALSE
    /\ h_stop' = TRUE
    /\ cmpc' = "nw_join"
    /\ UNCHANGED <<cmFixed, cmrc, cmLogs, cmObjs, wpc, wfam, wres, h_kick, suppressed, osVars,
                   libVars, g_working>>

\* A wait on the thread handle that returns at once, whatever the thread does.
ThreadHandleNeverWaited == TRUE

\* WaitForSingleObject(h_thread_, INFINITE) returns once ThreadMain has returned.
ThreadHandleSignaled == wpc = "exited"

\* ... and the wait on the thread handle returns; the handles are closed.
DNwJoin ==
    /\ Alive /\ cmpc = "nw_join" /\ ThreadHandleSignaled
    /\ live' = Destroyed
    /\ dtorLog' = Append(dtorLog, "nw")
    /\ cmpc' = "unwind"
    /\ UNCHANGED <<cmFixed, cmrc, ctorLog, threw, cmObjs, watchVars, osVars, libVars,
                   g_working>>

\* ~DNS -> Revert: nothing unless applied_; each touched family is restored,
\* which fails when the interface key is gone with the adapter; the snapshot
\* is cleared either way and the destructor swallows the error.
DDnsRevert ==
    /\ Alive /\ cmpc = "unwind" /\ live # << >> /\ NextToDestroy = "dns"
    /\ nameServer' = [f \in Families |->
                        IF dnsSt.applied /\ dnsSt.touched[f] /\ adapterPresent
                          THEN DnsRestored(dnsSt, f) ELSE nameServer[f]]
    /\ osFailed' = (osFailed \/ (dnsSt.applied /\ ~adapterPresent))
    /\ dnsSt' = DnsFresh
    /\ live' = Destroyed
    /\ dtorLog' = Append(dtorLog, "dns")
    /\ UNCHANGED <<cmFixed, cmpc, cmrc, ctorLog, threw, tun, fwEntry, rbSnap, watchVars,
                   adapterPresent, routes, iface, fwRule, cfgOnClosed, libVars, g_working>>

\* ~DNS -> Revert on an interface that is still there, with the restore of the
\* families in failing throwing (OpenInterfaceKey or WriteNameServer fails):
\* their values stay, any_error is set, the other touched families are
\* restored, the snapshot is cleared and the destructor swallows the error.
DDnsRevertFails(failing) ==
    /\ Alive /\ cmpc = "unwind" /\ live # << >> /\ NextToDestroy = "dns"
    /\ dnsSt.applied /\ adapterPresent
    /\ failing # {} /\ \A f \in failing : dnsSt.touched[f]
    /\ nameServer' = [f \in Families |->
                        IF dnsSt.touched[f] /\ f \notin failing
                          THEN DnsRestored(dnsSt, f) ELSE nameServer[f]]
    /\ osFailed' = TRUE
    /\ dnsSt' = DnsFresh
    /\ live' = Destroyed
    /\ dtorLog' = Append(dtorLog, "dns")
    /\ UNCHANGED <<cmFixed, cmpc, cmrc, ctorLog, threw, tun, fwEntry, rbSnap, watchVars,
                   adapterPresent, routes, iface, fwRule, cfgOnClosed, libVars, g_working>>

\* ~NetworkRollback -> Revert, step 1: RemoveSplitDefaults_. delete_routes_where
\* deletes the NETMGMT /1 rows on our adapter, or it fails (the table cannot be
\* read, a delete is refused) and the rows stay.
DRbSplitDefaults ==
    /\ Alive /\ cmpc = "unwind" /\ live # << >> /\ NextToDestroy = "rollback"
    /\ \/ /\ routes' = {r \in routes : ~IsOurSplitDefault(r, r.fam)}
          /\ osFailed' = osFailed
       \/ /\ routes' = routes
          /\ osFailed' = TRUE
    /\ cmpc' = "rb_pin"
    /\ UNCHANGED <<cmFixed, cmrc, cmLogs, cmObjs, watchVars, adapterPresent, iface,
                   nameServer, fwRule, cfgOnClosed, libVars, g_working>>

\* Revert, step 2: RemovePinnedRouteToServer_ for the server's family, run
\* whatever step 1 did.
DRbPinnedRoute ==
    /\ Alive /\ cmpc = "rb_pin"
    /\ \/ /\ routes' = {r \in routes : ~IsPinnedToServer(r, cfg.serverFam)}
          /\ osFailed' = osFailed
       \/ /\ routes' = routes
          /\ osFailed' = TRUE
    /\ cmpc' = "rb_base"
    /\ UNCHANGED <<cmFixed, cmrc, cmLogs, cmObjs, watchVars, adapterPresent, iface,
                   nameServer, fwRule, cfgOnClosed, libVars, g_working>>

\* Revert, step 3: RestoreBaseline_ for the captured families, which fails when
\* the interface is gone with the adapter; captured_ is cleared; the destructor
\* swallows the error.
DRbBaseline ==
    /\ Alive /\ cmpc = "rb_base"
    /\ iface' = [f \in Families |->
                   IF rbSnap.have[f] /\ adapterPresent
                     THEN IfaceRestored(iface[f], rbSnap.base[f]) ELSE iface[f]]
    /\ osFailed' = (osFailed \/ ~adapterPresent)
    /\ rbSnap' = [rbSnap EXCEPT !.captured = FALSE]
    /\ live' = Destroyed
    /\ dtorLog' = Append(dtorLog, "rollback")
    /\ cmpc' = "unwind"
    /\ UNCHANGED <<cmFixed, cmrc, ctorLog, threw, tun, fwEntry, dnsSt, watchVars,
                   adapterPresent, routes, nameServer, fwRule, cfgOnClosed, libVars,
                   g_working>>

\* ~FirewallRules -> Revert: nothing unless applied_; the installed rule is
\* removed and, if had_before, the snapshot is added again.
DFwRevert ==
    /\ Alive /\ cmpc = "unwind" /\ live # << >> /\ NextToDestroy = "fw"
    /\ fwRule' = IF ~fwEntry.applied THEN fwRule
                 ELSE IF fwEntry.had_before THEN RestoreFromSnapshot(fwEntry.snapshot)
                 ELSE FwAbsent
    /\ fwEntry' = FwFresh
    /\ live' = Destroyed
    /\ dtorLog' = Append(dtorLog, "fw")
    /\ UNCHANGED <<cmFixed, cmpc, cmrc, ctorLog, threw, tun, rbSnap, dnsSt, watchVars,
                   adapterPresent, routes, iface, nameServer, osFailed, cfgOnClosed, libVars,
                   g_working>>

\* ------------------------------------------------------------- environment
\* Stop() on another thread: g_working = 0. Only Client_Serve reads the flag,
\* so the request is taken while ClientMain is serving.
StopRequested ==
    /\ Alive /\ g_working = 1
    /\ cmpc = "serve"
    /\ g_working' = 0
    /\ UNCHANGED <<cmVars, libVars>>

\* The OS reports an interface or route change: IpIfChangeCb / RouteChangeCb ->
\* Kick(), which drops the notification inside the suppress window.
Notify ==
    /\ Alive /\ subscribed /\ ~suppressed /\ ~h_kick
    /\ h_kick' = TRUE
    /\ UNCHANGED <<mainVars, wpc, wfam, wres, h_stop, subscribed, suppressed, osVars, libVars,
                   g_working>>

\* The underlying network changes while the watcher is subscribed: a row
\* that is not on our adapter (the original default route, the host route to
\* the server) leaves the table, as when the physical interface loses its
\* lease or its gateway.
RouteLost(r) ==
    /\ Alive /\ subscribed /\ r \in routes /\ r.ifc # "tun"
    /\ routes' = routes \ {r}
    /\ UNCHANGED <<mainVars, watchVars, adapterPresent, iface, nameServer, fwRule, osFailed,
                   cfgOnClosed, libVars, g_working>>

\* NowMs() reaches suppress_until_ms_.
SuppressExpires ==
    /\ Alive /\ suppressed
    /\ suppressed' = FALSE
    /\ UNCHANGED <<mainVars, wpc, wfam, wres, h_stop, h_kick, subscribed, osVars, libVars,
                   g_working>>

\* ------------------------------------------------------- the watcher thread
\* ThreadMain, outer wait: the stop event wins over the kick event.
WStopExit ==
    /\ Alive /\ wpc \in {"wait", "debounce"} /\ h_stop
    /\ wpc' = "exited"
    /\ UNCHANGED <<mainVars, wfam, wres, h_stop, h_kick, subscribed, suppressed, osVars, libVars,
                   g_working>>

\* A kick wakes the outer wait (auto-reset) and the debounce wait begins.
WKickWake ==
    /\ Alive /\ wpc = "wait" /\ ~h_stop /\ h_kick
    /\ h_kick' = FALSE
    /\ wpc' = "debounce"
    /\ UNCHANGED <<mainVars, wfam, wres, h_stop, subscribed, suppressed, osVars, libVars,
                   g_working>>

\* Another kick during the debounce wait: wait again.
WExtraKick ==
    /\ Alive /\ wpc = "debounce" /\ ~h_stop /\ h_kick
    /\ h_kick' = FALSE
    /\ UNCHANGED <<mainVars, wpc, wfam, wres, h_stop, subscribed, suppressed, osVars, libVars,
                   g_working>>

\* WAIT_TIMEOUT: Suppress(debounce), then reapply() starts with
\* ConfigureNetwork(adapter, server_ip, V4).
WDebounceTimeout ==
    /\ Alive /\ wpc = "debounce" /\ ~h_stop /\ ~h_kick
    /\ suppressed' = TRUE
    /\ wpc' = "cfg_if"
    /\ wfam' = "v4"
    /\ wres' = [f \in Families |-> "none"]
    /\ UNCHANGED <<mainVars, h_stop, h_kick, subscribed, osVars, libVars, g_working>>

\* An exception of ConfigureNetwork leaves reapply() and ThreadMain: the
\* watcher thread is over.
ReapplyEndsThread == wpc' = "exited" /\ wfam' = wfam

\* reapply() gives up after its first ConfigureNetwork call.
ReapplyEndsAfterFirstCall == wpc' = "wait" /\ wfam' = "v4"

\* ConfigureNetwork for wfam is over (it returned, or threw into reapply's
\* catch): reapply goes on with V6, or returns to ThreadMain's outer wait.
CfgCallEnds ==
    IF wfam = "v4" THEN wpc' = "cfg_if" /\ wfam' = "v6"
                   ELSE wpc' = "wait" /\ wfam' = "v4"

\* The ConfigureNetwork call for wfam has returned ("ok") or has thrown into
\* the catch of reapply ("threw").
CallEnded(how) == wres' = [wres EXCEPT ![wfam] = how]

\* ConfigureNetwork: GetLuid, set_if_mtu, add_ip_address_on_if, set_if_metric.
\* The adapter handle is not null once opened, also after Wintun.Close, so the
\* call goes on with a closed handle; what that does is not defined: it works
\* on the adapter if it still exists, or it throws.
CfgIface ==
    /\ Alive /\ wpc = "cfg_if"
    /\ cfgOnClosed' = (cfgOnClosed \/ tun.handle = "closed")
    /\ \/ /\ adapterPresent
          /\ iface' = [iface EXCEPT ![wfam] = IfaceConfigured(iface[wfam], cfg.mtu)]
          /\ osFailed' = osFailed
          /\ IF wfam = cfg.serverFam THEN wpc' = "cfg_pin" /\ wfam' = wfam /\ wres' = wres
                                     ELSE CfgCallEnds /\ CallEnded("ok")
       \/ /\ tun.handle = "closed"
          /\ iface' = iface
          /\ osFailed' = TRUE
          /\ CfgCallEnds /\ CallEnded("threw")
    /\ UNCHANGED <<mainVars, h_stop, h_kick, subscribed, suppressed, adapterPresent, routes,
                   nameServer, fwRule, libVars, g_working>>

\* add_or_update_host_route_via(server, via, 1, f): what it may do to the table.
\* If the table can be read and holds a host row to the server, that row is
\* rewritten to the desired one and set (which fails unless a row of the
\* desired key exists); otherwise the desired row is created, where "already
\* exists" counts as success.
AddOrUpdateOutcomes(f, via) ==
    LET desired == DesiredHostRoute(f, via)
        hostRows == {r \in routes : r.fam = f /\ r.dst = "server"}
        keyExists == \E r \in routes : RouteKey(r) = RouteKey(desired)
        created(failed) ==
            {[routes |-> CreateRoute(routes, desired), res |-> "pinned", failed |-> failed],
             [routes |-> routes, res |-> "throw", failed |-> TRUE]}
    IN  (IF hostRows # {}
           THEN IF keyExists
                  THEN {[routes |-> SetRoute(routes, desired), res |-> "pinned",
                         failed |-> FALSE]}
                  ELSE {[routes |-> routes, res |-> "throw", failed |-> TRUE]}
           ELSE created(FALSE))
        \cup created(TRUE)

\* The pin of ConfigureNetwork: get_best_route_to_generic, else
\* fallback_default_route_excluding (which throws when the table cannot be
\* read), then add_or_update_host_route_via; no route at all means no pin.
PinOutcomes(f) ==
    UNION {AddOrUpdateOutcomes(f, via) : via \in BestRoutes(f)}
    \cup UNION {{[routes |-> o.routes, res |-> o.res,
                  failed |-> (o.failed \/ BestRoutes(f) # {})] :
                    o \in AddOrUpdateOutcomes(f, via)} : via \in FallbackDefaults(f)}
    \cup (IF FallbackDefaults(f) = {}
            THEN {[routes |-> routes, res |-> "nopin", failed |-> (BestRoutes(f) # {})]}
            ELSE {})
    \cup {[routes |-> routes, res |-> "throw", failed |-> TRUE]}

\* ConfigureNetwork, need_pin: the pin; split-defaults follow only if pinned.
CfgPin ==
    /\ Alive /\ wpc = "cfg_pin"
    /\ \E o \in PinOutcomes(wfam) :
         /\ routes' = o.routes
         /\ osFailed' = (osFailed \/ o.failed)
         /\ IF o.res = "pinned"
              THEN wpc' = "cfg_sd1" /\ wfam' = wfam /\ wres' = wres
              ELSE CfgCallEnds /\ CallEnded(IF o.res = "throw" THEN "threw" ELSE "ok")
    /\ UNCHANGED <<mainVars, h_stop, h_kick, subscribed, suppressed, adapterPresent, iface,
                   nameServer, fwRule, cfgOnClosed, libVars, g_working>>

\* add_route_via_gateway(luid, "0.0.0.0" or "::", 1, peer, 1): throws when the
\* adapter is gone.
CfgSplitLow ==
    /\ Alive /\ wpc = "cfg_sd1"
    /\ IF adapterPresent
         THEN /\ routes' = CreateRoute(routes, SplitRoute(wfam, "lo"))
              /\ osFailed' = osFailed
              /\ wpc' = "cfg_sd2" /\ wfam' = wfam /\ wres' = wres
         ELSE /\ routes' = routes
              /\ osFailed' = TRUE
              /\ CfgCallEnds /\ CallEnded("threw")
    /\ UNCHANGED <<mainVars, h_stop, h_kick, subscribed, suppressed, adapterPresent, iface,
                   nameServer, fwRule, cfgOnClosed, libVars, g_working>>

\* add_route_via_gateway(luid, "128.0.0.0" or "8000::", 1, peer, 1).
CfgSplitHigh ==
    /\ Alive /\ wpc = "cfg_sd2"
    /\ IF adapterPresent
         THEN routes' = CreateRoute(routes, SplitRoute(wfam, "hi")) /\ osFailed' = osFailed
         ELSE routes' = routes /\ osFailed' = TRUE
    /\ CallEnded(IF adapterPresent THEN "ok" ELSE "threw")
    /\ CfgCallEnds
    /\ UNCHANGED <<mainVars, h_stop, h_kick, subscribed, suppressed, adapterPresent, iface,
                   nameServer, fwRule, cfgOnClosed, libVars, g_working>>

\* ------------------------------------- a NetWatcher object against the clock
\* The debounce wait resumed with what was left of its timeout.
DebounceWaitResumed(left) == left

\* WaitForMultipleObjects(2, wait_set, FALSE, debounce_ms_): every call of the
\* debounce loop waits the whole debounce again.
DebounceWait(left) == DebounceTicks

twOther == <<lifeVars, g_working, cliVars, mainVars, osVars, fwObjVars, rbObjVars, rxVars,
             wfam, wres>>
twRest == <<twOther, stoppc>>

\* The constructor: StartCore creates the events, subscribes and starts the
\* thread, which blocks in the outer wait.
TwStartCore ==
    /\ wpc = "none"
    /\ wpc' = "wait"
    /\ subscribed' = TRUE
    /\ UNCHANGED <<h_stop, h_kick, suppressed, clockVars, twRest>>

\* NowMs() advances by one tick.
Tick ==
    /\ wpc \in {"wait", "debounce", "reapply"}
    /\ debounceLeft' = IF wpc = "debounce" /\ debounceLeft > 0 THEN debounceLeft - 1
                                                               ELSE debounceLeft
    /\ suppressLeft' = IF suppressLeft > 0 THEN suppressLeft - 1 ELSE 0
    /\ suppressed' = (suppressLeft' > 0)
    /\ sinceKick' = IF sinceKick < DebounceTicks THEN sinceKick + 1 ELSE sinceKick
    /\ sinceReapply' = IF sinceReapply < DebounceTicks THEN sinceReapply + 1
                                                       ELSE sinceReapply
    /\ UNCHANGED <<wpc, h_stop, h_kick, subscribed, burstKicks, extSince, served,
                   ownPending, extLeft, twRest>>

\* Kick(): dropped while NowMs() < suppress_until_ms_, else SetEvent(h_kick_).
Kick(external) ==
    IF suppressLeft > 0
      THEN UNCHANGED <<h_kick, sinceKick, burstKicks, extSince>>
      ELSE /\ h_kick' = TRUE
           /\ sinceKick' = 0
           /\ burstKicks' = burstKicks + 1
           /\ extSince' = (extSince \/ external)

\* IpIfChangeCb / RouteChangeCb for a change somebody else made.
NotifyExternal ==
    /\ subscribed /\ extLeft > 0
    /\ extLeft' = extLeft - 1
    /\ Kick(TRUE)
    /\ UNCHANGED <<wpc, h_stop, subscribed, suppressed, debounceLeft, suppressLeft,
                   sinceReapply, served, ownPending, twRest>>

\* IpIfChangeCb / RouteChangeCb for a write of reapply(): the OS calls it on
\* its own thread, some time after the write.
NotifyOwnWrite ==
    /\ subscribed /\ ownPending = "pending"
    /\ ownPending' = "done"
    /\ Kick(FALSE)
    /\ UNCHANGED <<wpc, h_stop, subscribed, suppressed, debounceLeft, suppressLeft,
                   sinceReapply, served, extLeft, twRest>>

\* ThreadMain, outer wait: a kick (auto-reset) starts the debounce wait.
ThreadKickWake ==
    /\ wpc = "wait" /\ ~h_stop /\ h_kick
    /\ h_kick' = FALSE
    /\ wpc' = "debounce"
    /\ debounceLeft' = DebounceTicks
    /\ UNCHANGED <<h_stop, subscribed, suppressed, suppressLeft, sinceKick, sinceReapply,
                   burstKicks, extSince, served, ownPending, extLeft, twRest>>

\* ThreadMain, debounce wait: an extra kick, the loop waits again.
ThreadExtraKick ==
    /\ wpc = "debounce" /\ ~h_stop /\ h_kick
    /\ h_kick' = FALSE
    /\ debounceLeft' = DebounceWait(debounceLeft)
    /\ UNCHANGED <<wpc, h_stop, subscribed, suppressed, suppressLeft, sinceKick,
                   sinceReapply, burstKicks, extSince, served, ownPending, extLeft, twRest>>

\* ThreadMain, debounce wait: WAIT_TIMEOUT, Suppress(debounce_ms_) and
\* reapply() is invoked.
ThreadDebounceTimeout ==
    /\ wpc = "debounce" /\ ~h_stop /\ ~h_kick /\ debounceLeft = 0
    /\ suppressLeft' = DebounceTicks
    /\ suppressed' = TRUE
    /\ wpc' = "reapply"
    /\ sinceReapply' = 0
    /\ served' = burstKicks
    /\ burstKicks' = 0
    /\ extSince' = FALSE
    /\ ownPending' = IF ownPending = "pending" THEN "pending" ELSE "no"
    /\ UNCHANGED <<h_stop, h_kick, subscribed, debounceLeft, sinceKick, extLeft, twRest>>

\* reapply() runs ConfigureNetwork, which writes interface rows and routes: the
\* OS will report the change (the writes of one call are taken as one).
ReapplyWrite ==
    /\ wpc = "reapply" /\ ownPending = "no"
    /\ ownPending' = "pending"
    /\ UNCHANGED <<wpc, h_stop, h_kick, subscribed, suppressed, debounceLeft, suppressLeft,
                   sinceKick, sinceReapply, burstKicks, extSince, served, extLeft, twRest>>

\* reapply() returns (or throws into the catch): back to the outer wait.
ReapplyReturn ==
    /\ wpc = "reapply"
    /\ wpc' = "wait"
    /\ UNCHANGED <<h_stop, h_kick, subscribed, suppressed, clockVars, twRest>>

\* ThreadMain, either wait: the stop event wins over the kick event.
ThreadStopExit ==
    /\ wpc \in {"wait", "debounce"} /\ h_stop
    /\ wpc' = "exited"
    /\ UNCHANGED <<h_stop, h_kick, subscribed, suppressed, clockVars, twRest>>

\* Stop or the destructor: StopCore cancels the notifications, sets the stop
\* event and begins to wait for the thread.
TwStopCore ==
    /\ wpc \in {"wait", "debounce", "reapply"} /\ subscribed
    /\ subscribed' = FALSE
    /\ h_stop' = TRUE
    /\ stoppc' = "waiting"
    /\ UNCHANGED <<wpc, h_kick, suppressed, clockVars, twOther>>

\* StopCore that does not wait for the thread.
TwStopReturnWithoutWait ==
    /\ stoppc = "waiting"
    /\ stoppc' = "returned"
    /\ UNCHANGED <<wpc, h_stop, h_kick, subscribed, suppressed, clockVars, twOther>>

\* WaitForSingleObject(h_thread_, INFINITE) returns once ThreadMain has
\* returned; the handles are closed, started_ = false, StopCore returns.
TwStopReturn ==
    /\ stoppc = "waiting" /\ wpc = "exited"
    /\ stoppc' = "returned"
    /\ UNCHANGED <<wpc, h_stop, h_kick, subscribed, suppressed, clockVars, twOther>>

\* Stop once more: started_ is false, StopCore returns at once.
TwStopAgain ==
    /\ stoppc = "returned"
    /\ UNCHANGED <<wpc, h_stop, h_kick, subscribed, suppressed, clockVars, twRest>>

\* ------------------------------------------ a NetworkRollback object alone
\* Revert keeps captured_ when a step has failed.
CapturedKeptOnError(error) == error

\* Revert, after the three steps: captured_ = false, error or not.
CapturedAfterRevert(error) == FALSE

rbRest == <<lifeVars, g_working, cliVars, cmFixed, cmpc, cmrc, cmLogs, tun, fwEntry, dnsSt,
            watchVars, adapterPresent, nameServer, fwRule, cfgOnClosed, fwObjVars,
            clockVars, stoppc, rxVars>>

\* delete_routes_where(fam, pred) on the rows 'matched' that pred selects: the
\* rows it deletes and what it returns. It returns false when the table cannot
\* be read (nothing is deleted) or when some DeleteIpForwardEntry2 fails (that
\* row stays, the loop goes on).
DeleteRoutesWhere(matched) ==
    {[deleted |-> matched, ok |-> TRUE]}
    \cup {[deleted |-> d, ok |-> FALSE] : d \in (SUBSET matched) \ {matched}}
    \cup {[deleted |-> {}, ok |-> FALSE]}

\* restore_iface(fam, luid, autoMetric, metric, mtu): the row afterwards, what
\* it returns, and whether something was not written. ERROR_INVALID_PARAMETER
\* counts as success; a failed second load returns rc1 == NO_ERROR.
SetEntryResults == {"NO_ERROR", "ERROR_INVALID_PARAMETER", "OTHER"}
RestoreIface(row, base) ==
    {[row |-> row, ok |-> FALSE, failed |-> TRUE]}
    \cup UNION {
      LET row1 == IF rc1 = "NO_ERROR"
                    THEN [row EXCEPT !.auto = base.auto, !.metric = base.metric]
                    ELSE row
          ok1 == rc1 \in {"NO_ERROR", "ERROR_INVALID_PARAMETER"}
      IN  {[row |-> row1, ok |-> (rc1 = "NO_ERROR"), failed |-> TRUE]}
          \cup {[row |-> IF rc2 = "NO_ERROR" THEN [row1 EXCEPT !.mtu = base.mtu] ELSE row1,
                 ok |-> (ok1 /\ rc2 \in {"NO_ERROR", "ERROR_INVALID_PARAMETER"}),
                 failed |-> (rc1 # "NO_ERROR" \/ rc2 # "NO_ERROR")] :
                  rc2 \in SetEntryResults}
      : rc1 \in SetEntryResults}

\* NetworkRollback(luid, server_ip) -> CaptureBaseline_: save_iface per family;
\* it throws (no object) when both fail, else captured_ = true.
RbConstruct ==
    /\ rbpc = "ctor"
    /\ \E have \in [Families -> BOOLEAN] :
         IF \A f \in Families : ~have[f]
           THEN /\ rbpc' = "noobj"
                /\ osFailed' = TRUE
                /\ UNCHANGED rbSnap
           ELSE /\ rbpc' = "idle"
                /\ osFailed' = (osFailed \/ \E f \in Families : ~have[f])
                /\ rbSnap' = [captured |-> TRUE, have |-> have,
                              base |-> [f \in Families |->
                                          IF have[f] THEN iface[f] ELSE IfaceDefault]]
    /\ UNCHANGED <<routes, iface, rbError, rbInDtor, rbTried, rbFails, rbResult, rbRest>>

\* Between construction and Revert the configurator sets MTU, address and
\* metric on the interface row of a family (ConfigureNetwork).
RbConfigured(f) ==
    /\ rbpc = "idle" /\ rbSnap.captured
    /\ iface[f] # IfaceConfigured(iface[f], cfg.mtu)
    /\ iface' = [iface EXCEPT ![f] = IfaceConfigured(iface[f], cfg.mtu)]
    /\ UNCHANGED <<routes, osFailed, rbSnap, rbObjVars, rbRest>>

\* Revert is entered, by a caller or by the destructor (whose catch swallows
\* what Revert throws): without a baseline it throws std::logic_error at once.
RevertEnter(dtor) ==
    /\ rbpc = "idle"
    /\ IF ~rbSnap.captured
         THEN /\ rbResult' = "logic_error"
              /\ rbpc' = IF dtor THEN "gone" ELSE "idle"
              /\ UNCHANGED <<rbError, rbInDtor, rbTried, rbFails>>
         ELSE /\ rbResult' = "none"
              /\ rbpc' = "split"
              /\ rbError' = FALSE
              /\ rbInDtor' = dtor
              /\ rbTried' = {}
              /\ rbFails' = {}
    /\ UNCHANGED <<routes, iface, osFailed, rbSnap, rbRest>>

RbRevert == RevertEnter(FALSE)

RbDestructor == RevertEnter(TRUE)

\* Revert, step 1: RemoveSplitDefaults_ deletes the NETMGMT /1 rows on our
\* adapter, IPv4 then IPv6, and throws only when both families failed.
RbRemoveSplitDefaults ==
    /\ rbpc = "split"
    /\ \E o4 \in DeleteRoutesWhere({r \in routes : IsOurSplitDefault(r, "v4")}),
          o6 \in DeleteRoutesWhere({r \in routes : IsOurSplitDefault(r, "v6")}) :
         /\ routes' = routes \ (o4.deleted \cup o6.deleted)
         /\ rbError' = (~o4.ok /\ ~o6.ok)
         /\ rbFails' = rbFails \cup (IF o4.ok THEN {} ELSE {"split_v4"})
                               \cup (IF o6.ok THEN {} ELSE {"split_v6"})
         /\ osFailed' = (osFailed \/ ~o4.ok \/ ~o6.ok)
    /\ rbTried' = rbTried \cup {"split"}
    /\ rbpc' = "pin"
    /\ UNCHANGED <<iface, rbSnap, rbInDtor, rbResult, rbRest>>

\* Revert, step 2: RemovePinnedRouteToServer_ deletes the NETMGMT host rows to
\* the server, on any interface, and throws when the delete failed.
RbRemovePinnedRoute ==
    /\ rbpc = "pin"
    /\ \E o \in DeleteRoutesWhere({r \in routes : IsPinnedToServer(r, cfg.serverFam)}) :
         /\ routes' = routes \ o.deleted
         /\ rbError' = (rbError \/ ~o.ok)
         /\ rbFails' = rbFails \cup (IF o.ok THEN {} ELSE {"pin"})
         /\ osFailed' = (osFailed \/ ~o.ok)
    /\ rbTried' = rbTried \cup {"pin"}
    /\ rbpc' = "base"
    /\ UNCHANGED <<iface, rbSnap, rbInDtor, rbResult, rbRest>>

\* Revert, step 3: RestoreBaseline_ calls restore_iface for every captured
\* family and throws when one of them returned false.
RbRestoreBaseline ==
    /\ rbpc = "base"
    /\ \E o \in [Families -> UNION {RestoreIface(iface[f], rbSnap.base[f]) : f \in Families}] :
         /\ \A f \in Families : o[f] \in RestoreIface(iface[f], rbSnap.base[f])
         /\ iface' = [f \in Families |-> IF rbSnap.have[f] THEN o[f].row ELSE iface[f]]
         /\ rbError' = (rbError \/ \E f \in Families : rbSnap.have[f] /\ ~o[f].ok)
         /\ rbFails' = rbFails \cup {IF f = "v4" THEN "base_v4" ELSE "base_v6" :
                                       f \in {g \in Families : rbSnap.have[g] /\ o[g].failed}}
         /\ osFailed' = (osFailed \/ \E f \in Families : rbSnap.have[f] /\ o[f].failed)
    /\ rbTried' = rbTried \cup {"base"}
    /\ rbpc' = "end"
    /\ UNCHANGED <<routes, rbSnap, rbInDtor, rbResult, rbRest>>

\* Revert, the end: captured_ = false, then std::runtime_error if error.
RbRevertEnd ==
    /\ rbpc = "end"
    /\ rbSnap' = [rbSnap EXCEPT !.captured = CapturedAfterRevert(rbError)]
    /\ rbResult' = IF rbError THEN "runtime_error" ELSE "ok"
    /\ rbpc' = IF rbInDtor THEN "gone" ELSE "idle"
    /\ UNCHANGED <<routes, iface, osFailed, rbError, rbInDtor, rbTried, rbFails, rbRest>>

\* ------------------------------------------- the receive callback alone
\* The packets of a run and their sizes, and the sizes of the caller's buffer.
MaxPackets == 3
MaxPktSize == 3
BufSizes == {1, 2, 3}

\* Everything but the callback, the ring and the caller's buffer.
rxRest == <<lifeVars, g_working, cliVars, mainVars, watchVars, osVars, fwObjVars,
            clockVars, stoppc, rbObjVars>>

\* if (pkt_size >= size): a packet that fills the buffer is refused.
OversizedOrEqual(pkt_size, size) == pkt_size >= size

\* if (pkt_size > size)
Oversized(pkt_size, size) == pkt_size > size

\* The adapter puts a packet into the receive ring.
RxArrive(n) ==
    /\ rxpc \in {"idle", "fetched", "copied"}
    /\ rxFetched + Len(rxRing) < MaxPackets
    /\ rxRing' = Append(rxRing, n)
    /\ UNCHANGED <<rxpc, rxSize, rxPkt, rxBuf, rxRet, rxFetched, rxReleased, rxEmpty, rxRest>>

\* receive_from_net(buffer, size) is called: Wintun.Recv hands out the oldest
\* packet of the ring, or returns null (empty ring, or an error of the
\* session), and then the callback returns 0.
RxRecv(size) ==
    /\ rxpc = "idle"
    /\ rxSize' = size
    /\ rxBuf' = 0
    /\ rxEmpty' = (rxRing = << >>)
    /\ \/ /\ rxRing # << >>
          /\ rxPkt' = Head(rxRing)
          /\ rxRing' = Tail(rxRing)
          /\ rxFetched' = rxFetched + 1
          /\ rxRet' = << >>
          /\ rxpc' = "fetched"
       \/ /\ rxPkt' = 0
          /\ rxRet' = <<0>>
          /\ rxpc' = "idle"
          /\ UNCHANGED <<rxRing, rxFetched>>
    /\ UNCHANGED <<rxReleased, rxRest>>

\* pkt_size > size: RecvRelease, return -1.
RxOversized ==
    /\ rxpc = "fetched" /\ Oversized(rxPkt, rxSize)
    /\ rxReleased' = rxReleased + 1
    /\ rxRet' = <<-1>>
    /\ rxpc' = "idle"
    /\ UNCHANGED <<rxRing, rxSize, rxPkt, rxBuf, rxFetched, rxEmpty, rxRest>>

\* std::memcpy(buffer, pkt, pkt_size)
RxCopy ==
    /\ rxpc = "fetched" /\ ~Oversized(rxPkt, rxSize)
    /\ rxBuf' = rxPkt
    /\ rxpc' = "copied"
    /\ UNCHANGED <<rxRing, rxSize, rxPkt, rxRet, rxFetched, rxReleased, rxEmpty, rxRest>>

\* RecvRelease, return pkt_size.
RxRelease ==
    /\ rxpc = "copied"
    /\ rxReleased' = rxReleased + 1
    /\ rxRet' = <<rxPkt>>
    /\ rxpc' = "idle"
    /\ UNCHANGED <<rxRing, rxSize, rxPkt, rxBuf, rxFetched, rxEmpty, rxRest>>

\* ---------------------------------------------------------- specifications
\* The library as loaded: nothing started.
InitLib ==
    /\ g_started = FALSE
    /\ g_working = 1
    /\ g_thread = 0
    /\ cpc = [c \in Callers |-> "idle"]
    /\ cret = [c \in Callers |-> <<>>]
    /\ cnew = [c \in Callers |-> 0]
    /\ csaw = [c \in Callers |-> FALSE]
    /\ lpc = [w \in Workers |-> "none"]
    /\ lret0 = [w \in Workers |-> FALSE]
    /\ jpc = [j \in Joiners |-> "none"]
    /\ jtarget = [j \in Joiners |-> 0]
    /\ procState = "running"
    /\ stopSeen = FALSE
    /\ cli_working = TRUE
    /\ sigpc = "none"
    /\ sigServing = FALSE

\* The objects of ClientMain before any of them is constructed.
InitObjects ==
    /\ cmrc = "none"
    /\ live = << >>
    /\ ctorLog = << >>
    /\ dtorLog = << >>
    /\ threw = FALSE
    /\ tun = [handle |-> "none", created |-> FALSE]
    /\ fwEntry = FwFresh
    /\ rbSnap = RbFresh
    /\ dnsSt = DnsFresh
    /\ wpc = "none"
    /\ wfam = "v4"
    /\ wres = [f \in Families |-> "none"]
    /\ h_stop = FALSE
    /\ h_kick = FALSE
    /\ subscribed = FALSE
    /\ suppressed = FALSE
    /\ iface = [f \in Families |-> IfaceDefault]
    /\ osFailed = FALSE
    /\ cfgOnClosed = FALSE

\* The worker body is not followed statement by statement: one fixed machine.
InitNoMain ==
    /\ InitObjects
    /\ cmpc = "off"
    /\ cfg = [jsonOk |-> TRUE, serverFam |-> "v4", planValid |-> TRUE, mtu |-> 1400,
              dns |-> <<"a4">>]
    /\ adapterPresent = TRUE
    /\ routes = {}
    /\ nameServer = [f \in Families |-> NsAbsent]
    /\ fwRule = FwAbsent
    /\ os0 = [adapterPresent |-> adapterPresent, routes |-> routes,
              nameServer |-> nameServer, fwRule |-> fwRule]

\* No FirewallRules object is followed on its own.
InitFwIdle ==
    /\ fwRules = [n \in RuleNames |-> FwAbsent]
    /\ entries_ = << >>
    /\ applied_ = FALSE
    /\ fwpc = "off"
    /\ fwIt = 1
    /\ fwOps = << >>
    /\ fwAllowed = << >>
    /\ fw0 = fwRules
    /\ fwFailed = FALSE
    /\ fwCall = << >>
    /\ fwErr = FALSE
    /\ fwStepFailed = FALSE
    /\ fwResult = "none"

\* No NetWatcher is followed against the clock.
InitClockIdle ==
    /\ debounceLeft = 0
    /\ suppressLeft = 0
    /\ sinceKick = DebounceTicks
    /\ sinceReapply = DebounceTicks
    /\ burstKicks = 0
    /\ extSince = FALSE
    /\ served = 0
    /\ ownPending = "no"
    /\ extLeft = 0

\* No NetworkRollback is followed on its own.
InitRbIdle ==
    /\ rbpc = "off"
    /\ rbError = FALSE
    /\ rbInDtor = FALSE
    /\ rbTried = {}
    /\ rbFails = {}
    /\ rbResult = "none"

\* No receive callback is followed on its own.
InitRxIdle ==
    /\ rxpc = "off"
    /\ rxRing = << >>
    /\ rxSize = 0
    /\ rxPkt = 0
    /\ rxBuf = 0
    /\ rxRet = << >>
    /\ rxFetched = 0
    /\ rxReleased = 0
    /\ rxEmpty = FALSE

InitAux == InitFwIdle /\ InitClockIdle /\ stoppc = "none" /\ InitRbIdle /\ InitRxIdle

InitLife == InitLib /\ InitNoMain /\ mainpc = "off" /\ InitAux

InitCLI == InitLib /\ InitNoMain /\ mainpc = "start" /\ InitAux

\* One run of ClientMain: any config of the model on any machine of the model.
\* An adapter that does not exist yet has no registry values.
Init ==
    /\ InitLib /\ mainpc = "off" /\ InitAux
    /\ InitObjects
    /\ cmpc = "elev"
    /\ cfg \in Configs
    /\ adapterPresent \in BOOLEAN
    /\ routes \in SUBSET InitialRouteUniverse(cfg.serverFam)
    /\ \E v \in InitialNameServers : nameServer = [f \in Families |-> v]
    /\ adapterPresent = FALSE => nameServer = [f \in Families |-> NsAbsent]
    /\ fwRule \in InitialFwRules
    /\ os0 = [adapterPresent |-> adapterPresent, routes |-> routes,
              nameServer |-> nameServer, fwRule |-> fwRule]

\* The runs that study the routes: an accepted configuration with one DNS
\* server, no NameServer value and no firewall rule of ours beforehand.
InitNet ==
    /\ Init
    /\ cfg \in ValidConfigs /\ cfg.dns = <<"a4">>
    /\ nameServer = [f \in Families |-> NsAbsent]
    /\ fwRule = FwAbsent

\* A DNS object used on its own: constructed on an existing interface, Apply
\* called once with any server list, then destroyed when its owner's scope ends.
MaxDnsLen == 3

DnsArgs == UNION {[1..n -> {"a4", "a6", "bad"}] : n \in 0..MaxDnsLen}

InitDns ==
    /\ InitLib /\ mainpc = "off" /\ InitAux
    /\ InitObjects
    /\ cmpc = "dnsctor"
    /\ \E l \in DnsArgs :
         cfg = [jsonOk |-> TRUE, serverFam |-> "v4", planValid |-> TRUE, mtu |-> 1400,
                dns |-> l]
    /\ adapterPresent = TRUE
    /\ routes = {}
    /\ nameServer \in [Families -> InitialNameServers]
    /\ fwRule = FwAbsent
    /\ os0 = [adapterPresent |-> adapterPresent, routes |-> routes,
              nameServer |-> nameServer, fwRule |-> fwRule]

\* A FirewallRules object just constructed, on any rule set.
InitFw ==
    /\ InitLib /\ InitNoMain /\ mainpc = "off" /\ InitClockIdle /\ stoppc = "none" /\ InitRbIdle /\ InitRxIdle
    /\ fwRules \in [RuleNames -> InitialFwRules]
    /\ entries_ = << >>
    /\ applied_ = FALSE
    /\ fwpc = "idle"
    /\ fwIt = 1
    /\ fwOps = << >>
    /\ fwAllowed = << >>
    /\ fw0 = fwRules
    /\ fwFailed = FALSE
    /\ fwCall = << >>
    /\ fwErr = FALSE
    /\ fwStepFailed = FALSE
    /\ fwResult = "none"

\* The session is started and the serve loop may call receive_from_net; the
\* ring holds up to two packets.
InitRx ==
    /\ InitLib /\ InitNoMain /\ mainpc = "off" /\ InitFwIdle /\ InitClockIdle /\ InitRbIdle
    /\ stoppc = "none"
    /\ rxpc = "idle"
    /\ rxRing \in UNION {[1..n -> 1..MaxPktSize] : n \in 0..2}
    /\ rxSize = 0
    /\ rxPkt = 0
    /\ rxBuf = 0
    /\ rxRet = << >>
    /\ rxFetched = 0
    /\ rxReleased = 0
    /\ rxEmpty = FALSE

\* A NetWatcher about to be constructed, with up to MaxKicks external changes
\* ahead of it.
InitWatch ==
    /\ InitLib /\ InitNoMain /\ mainpc = "off" /\ InitFwIdle /\ stoppc = "none" /\ InitRbIdle /\ InitRxIdle
    /\ debounceLeft = 0
    /\ suppressLeft = 0
    /\ sinceKick = DebounceTicks
    /\ sinceReapply = DebounceTicks
    /\ burstKicks = 0
    /\ extSince = FALSE
    /\ served = 0
    /\ ownPending = "no"
    /\ extLeft \in 0..MaxKicks

\* The rows the configurator may have left in the table when a NetworkRollback
\* is used: split-defaults of both families and a pin on the physical
\* interface.
RbRouteUniverse(serverFam) ==
    {SplitRoute(serverFam, "lo"), SplitRoute(serverFam, "hi"),
     SplitRoute(IF serverFam = "v4" THEN "v6" ELSE "v4", "lo"),
     [fam |-> serverFam, dst |-> "server", ifc |-> "nic", nh |-> "gw",
      proto |-> "NETMGMT", metric |-> 1]}

\* A NetworkRollback about to be constructed on the adapter, for a server of
\* either family; the configurator's rows may already be there.
InitRb ==
    /\ InitLib /\ mainpc = "off" /\ InitFwIdle /\ InitClockIdle /\ stoppc = "none" /\ InitRxIdle
    /\ InitObjects
    /\ cmpc = "off"
    /\ \E sf \in Families :
         /\ cfg = [jsonOk |-> TRUE, serverFam |-> sf, planValid |-> TRUE, mtu |-> 1400,
                   dns |-> <<"a4">>]
         /\ routes \in SUBSET RbRouteUniverse(sf)
    /\ adapterPresent = TRUE
    /\ nameServer = [f \in Families |-> NsAbsent]
    /\ fwRule = FwAbsent
    /\ os0 = [adapterPresent |-> adapterPresent, routes |-> routes,
              nameServer |-> nameServer, fwRule |-> fwRule]
    /\ rbpc = "ctor"
    /\ rbError = FALSE
    /\ rbInDtor = FALSE
    /\ rbTried = {}
    /\ rbFails = {}
    /\ rbResult = "none"

\* Apply has returned and the scope of the DNS object is left: ~DNS runs next.
DnsScopeEnd ==
    /\ Alive /\ cmpc = "nw"
    /\ ReturnWith(0)
    /\ UNCHANGED <<cmFixed, cmLogs, cmObjs, watchVars, osVars, libVars, g_working>>

\* The steps of the threads inside the library, whoever called it.
LifeStep ==
    \/ \E c \in Callers : StartCheck(c)
    \/ \E c \in Callers : StartSetWorking(c)
    \/ \E c \in Callers : StartCreate(c)
    \/ \E c \in Callers : StartReadJoinable(c)
    \/ \E c \in Callers : StartAssign(c)
    \/ \E c \in Callers : StartStore(c)
    \/ \E c \in Callers : StopCheck(c)
    \/ \E c \in Callers : StopClearWorking(c)
    \/ \E c \in Callers : StopSpawnJoiner(c)
    \/ \E j \in Joiners : JoinerCheck(j)
    \/ \E j \in Joiners : JoinerJoin(j)
    \/ \E j \in Joiners : JoinerStore(j)
    \/ \E w \in Workers : LInitOk(w)
    \/ \E w \in Workers : LInitFail(w)
    \/ \E w \in Workers : LInitThrow(w)
    \/ \E w \in Workers : LServeObserveStop(w)
    \/ \E w \in Workers : LServeReturn(w)
    \/ \E w \in Workers : LStoreFalse(w)

NextLife ==
    \/ \E c \in Callers : CallStart(c) /\ UNCHANGED cliVars
    \/ \E c \in Callers : CallStop(c) /\ UNCHANGED cliVars
    \/ LifeStep
    \/ \E w \in Workers : LTeardown(w)

\* The same library driven by one thread: its calls follow one another.
NextSeq ==
    \/ CallStart("c1") /\ UNCHANGED cliVars
    \/ CallStop("c1") /\ UNCHANGED cliVars
    \/ LifeStep
    \/ \E w \in Workers : LTeardown(w)

NextCLI ==
    \/ MainStart
    \/ MainInstallHandlers
    \/ SignalArrives
    \/ OnExitClearWorking
    \/ MainReturn
    \/ LifeStep
    \/ \E w \in Workers : LTeardownStep(w)

Next ==
    \/ CmElevation
    \/ CmParse
    \/ CmLoadWintun
    \/ CmWSAStartup
    \/ CmFwCtor
    \/ CmFwAllow
    \/ CmLoadPlugin
    \/ CmOpenAdapter
    \/ CmSetAddressPlan
    \/ CmRollbackCtor
    \/ CmDnsCtor
    \/ CmDnsApply
    \/ CmNetWatcherCtor
    \/ CmStartSession
    \/ CmConnect
    \/ CmServeReturns
    \/ CmTeardown
    \/ CmThrowEscapes
    \/ CmUnwindDone
    \/ DNwStop
    \/ DNwJoin
    \/ DDnsRevert
    \/ DRbSplitDefaults
    \/ DRbPinnedRoute
    \/ DRbBaseline
    \/ DFwRevert
    \/ StopRequested
    \/ Notify
    \/ SuppressExpires
    \/ WStopExit
    \/ WKickWake
    \/ WExtraKick
    \/ WDebounceTimeout
    \/ CfgIface
    \/ CfgPin
    \/ CfgSplitLow
    \/ CfgSplitHigh

\* ClientMain and the watcher thread while the underlying routes change.
NextNet ==
    \/ Next
    \/ \E r \in routes : RouteLost(r)

NextDns ==
    \/ CmDnsCtor
    \/ CmDnsApply
    \/ \E f \in Families : DnsApplyWriteFails(f)
    \/ DnsScopeEnd
    \/ DDnsRevert
    \/ \E failing \in SUBSET Families : DDnsRevertFails(failing)
    \/ CmThrowEscapes
    \/ CmUnwindDone

NextFw ==
    \/ \E pr \in FwProtos, po \in FwPorts : FwAllow(pr, po)
    \/ \E pr \in FwProtos, po \in FwPorts : FwAllowNoop(pr, po)
    \/ FwRevertBegin
    \/ FwRevertRemove
    \/ FwRevertRestore
    \/ FwRevertEnd

NextWatch ==
    \/ TwStartCore
    \/ Tick
    \/ NotifyExternal
    \/ NotifyOwnWrite
    \/ ThreadKickWake
    \/ ThreadExtraKick
    \/ ThreadDebounceTimeout
    \/ ReapplyWrite
    \/ ReapplyReturn
    \/ ThreadStopExit
    \/ TwStopCore
    \/ TwStopReturn
    \/ TwStopAgain

NextRx ==
    \/ \E n \in 1..MaxPktSize : RxArrive(n)
    \/ \E size \in BufSizes : RxRecv(size)
    \/ RxOversized
    \/ RxCopy
    \/ RxRelease

NextRb ==
    \/ RbConstruct
    \/ \E f \in Families : RbConfigured(f)
    \/ RbRevert
    \/ RbDestructor
    \/ RbRemoveSplitDefaults
    \/ RbRemovePinnedRoute
    \/ RbRestoreBaseline
    \/ RbRevertEnd

vars == <<lifeVars, g_working, cliVars, cmVars>>

\* Every thread inside the library is scheduled: a caller inside Start or Stop,
\* a worker, a joiner. When the callers call is up to them.
FairLife ==
    /\ \A c \in Callers :
         WF_vars(\/ StartCheck(c) \/ StartSetWorking(c) \/ StartCreate(c)
                 \/ StartReadJoinable(c) \/ StartAssign(c) \/ StartStore(c)
                 \/ StopCheck(c) \/ StopClearWorking(c) \/ StopSpawnJoiner(c))
    /\ \A j \in Joiners : WF_vars(JoinerCheck(j) \/ JoinerJoin(j) \/ JoinerStore(j))
    /\ \A w \in Workers :
         WF_vars(\/ LInitOk(w) \/ LInitFail(w) \/ LInitThrow(w) \/ LServeObserveStop(w)
                 \/ LTeardownStep(w) \/ LTeardown(w) \/ LStoreFalse(w))

\* The clock advances and the watcher thread is scheduled.
FairWatch ==
    /\ WF_vars(Tick)
    /\ WF_vars(ThreadKickWake)
    /\ WF_vars(ThreadExtraKick)
    /\ WF_vars(ThreadDebounceTimeout)

SpecLife == InitLife /\ [][NextLife]_vars
SpecSeq == InitLife /\ [][NextSeq]_vars
SpecCLI == InitCLI /\ [][NextCLI]_vars
SpecSeqFair == SpecSeq /\ FairLife
SpecCLIFair == SpecCLI /\ FairLife /\ WF_vars(MainInstallHandlers)
                       /\ WF_vars(OnExitClearWorking) /\ WF_vars(MainReturn)
Spec == Init /\ [][Next]_vars
SpecNet == InitNet /\ [][NextNet]_vars
SpecDns == InitDns /\ [][NextDns]_vars
SpecFw == InitFw /\ [][NextFw]_vars
SpecWatch == InitWatch /\ [][NextWatch]_vars
SpecWatchFair == SpecWatch /\ FairWatch

\* The watcher thread is scheduled, reapply() returns, and so does the wait of
\* StopCore once the thread is over.
FairWatchStop ==
    /\ FairWatch
    /\ WF_vars(ReapplyReturn)
    /\ WF_vars(ThreadStopExit)
    /\ WF_vars(TwStopReturn)

SpecWatchStop == SpecWatch /\ FairWatchStop
SpecRb == InitRb /\ [][NextRb]_vars

SpecRx == InitRx /\ [][NextRx]_vars

\* ================================================================== claims
\* ---------------------------------------------------------------------- C1
\* C1: in the CLI wrapper, when the signal arrived while the worker was serving,
\* the process has not exited (main has not returned) unless every worker's
\* teardown is complete: NetWatcher stopped, DNS, NetworkRollback and
\* FirewallRules reverted.
C1_ExitAfterTeardown ==
    (procState = "exited" /\ sigServing) => \A w \in Workers : LTornDown(w)

\* ---------------------------------------------------------------------- C2
\* C2: after a full Start -> Stop cycle (ClientMain served, saw the stop flag
\* and returned 0) on an adapter that existed before, with no OS call failed,
\* the forwarding table (but for rows on our adapter not tagged NETMGMT), the
\* NameServer values and the firewall rule are what they were before Start.
C2_CycleRestoresBaseline ==
    (cmpc = "ret" /\ cmrc = 0 /\ g_working = 0 /\ ~osFailed /\ os0.adapterPresent) =>
        /\ {r \in routes : ~(r.ifc = "tun" /\ r.proto # "NETMGMT")} =
               {r \in os0.routes : ~(r.ifc = "tun" /\ r.proto # "NETMGMT")}
        /\ nameServer = os0.nameServer
        /\ fwRule = os0.fwRule

\* ---------------------------------------------------------------------- C3
\* C3: whenever a split-default of a family installed by ConfigureNetwork is in
\* the forwarding table, a NETMGMT host route to the server is there too.
C3_SplitDefaultImpliesPin ==
    \A f \in Families :
        (\E r \in routes : IsOurSplitDefault(r, f)) =>
            (\E r \in routes : IsPinnedToServer(r, f))

\* ---------------------------------------------------------------------- C4
\* C4: with no Stop call made, while a worker is serving no second worker has
\* been created: a second Start, sequential or concurrent, returned -1 instead.
C4_OneWorkerWhileServing ==
    ~stopSeen =>
        \A w \in Workers : lpc[w] = "serve" =>
            \A v \in Workers \ {w} : lpc[v] \in {"none", "done"}

\* ---------------------------------------------------------------------- C5
\* C5: a Stop that finds the started bit clear returns -2 and changes nothing:
\* the working flag, the joiner threads, the thread handle and the started bit
\* keep their values.
C5_StopNotStartedNoEffect ==
    [][\A c \in Callers :
          (cpc[c] = "stop_check" /\ ~g_started /\ cpc'[c] # "stop_check") =>
              /\ cpc'[c] = "idle"
              /\ cret'[c] = <<"Stop", -2>>
              /\ UNCHANGED <<g_working, jpc, jtarget, g_thread, g_started>>]_vars

C5_Witness == \E c \in Callers : cret[c] = <<"Stop", -2>>

\* ---------------------------------------------------------------------- C6
\* C6: IsRunning() is 1 at every instant at which a worker whose Start has
\* returned 0 is serving, that is, has not yet observed working = 0; the calls
\* are made one after another, joiners of earlier Stops run beside them.
C6_RunningWhileServing ==
    \A w \in Workers : (lpc[w] = "serve" /\ lret0[w]) => IsRunning = 1

\* ---------------------------------------------------------------------- C7
\* C7: when an exception thrown by a worker step (not by a failing OS call)
\* has ended the process, the destructor of every undo-record that had been
\* constructed has run.
C7_ThrowRunsDestructors ==
    (procState = "crashed" /\ threw /\ ~osFailed) => Len(dtorLog) = Len(ctorLog)

\* ---------------------------------------------------------------------- C8
\* C8: when ClientMain is about to invoke Client_Connect, and from then on
\* while it serves, FirewallRules::Allow has returned successfully and the
\* allow-rule is installed.
C8_AllowBeforeConnect ==
    cmpc \in {"connect", "serve"} =>
        fwEntry.applied /\ fwRule.present /\ fwRule.fields = "ours"

C8_Witness == cmpc = "serve" /\ fwEntry.applied

\* ---------------------------------------------------------------------- C9
\* C9: when ClientMain is in Client_Serve, the DNS override is applied and, for
\* both families, address, MTU and metric of the adapter are configured; if
\* the machine had a route towards the server, the pin and both split-default
\* halves of the server's family are installed.
C9_ConfiguredBeforeServe ==
    cmpc = "serve" =>
        /\ dnsSt.applied
        /\ \A f \in Families : iface[f] = IfaceConfigured(iface[f], cfg.mtu)
        /\ os0.routes # {} =>
             /\ \E r \in routes : IsPinnedToServer(r, cfg.serverFam)
             /\ \A h \in {"lo", "hi"} : SplitRoute(cfg.serverFam, h) \in routes

\* --------------------------------------------------------------------- C10
\* C10: the destructors of the constructed undo-records finish in exact reverse
\* construction order (NetWatcher, DNS, NetworkRollback, FirewallRules): what
\* has been destroyed so far is always the reverse of the tail of what was
\* constructed, NetworkRollback's later steps run only once DNS is reverted,
\* and when ClientMain has returned every constructed record is destroyed.
C10_ReverseOrder ==
    /\ Len(dtorLog) <= Len(ctorLog)
    /\ \A i \in 1..Len(dtorLog) : dtorLog[i] = ctorLog[Len(ctorLog) + 1 - i]
    /\ cmpc \in {"rb_pin", "rb_base"} =>
         \E i \in 1..Len(dtorLog) : dtorLog[i] = "dns"
    /\ cmpc = "ret" => Len(dtorLog) = Len(ctorLog)

C10_Witness == cmpc = "ret" /\ dtorLog = <<"nw", "dns", "rollback", "fw">>

\* --------------------------------------------------------------------- C11
\* C11: ConfigureNetwork is never invoked by the watcher thread on an adapter
\* handle that ClientMain has already closed.
C11_NoReapplyOnClosedAdapter == ~cfgOnClosed

\* --------------------------------------------------------------------- C12
\* C12: Revert visits the entries in exact reverse order of the Allow calls
\* that created them: the k-th rule it removes is the one of the k-th last
\* Allow; a snapshot is re-inserted only directly after the removal of the same
\* entry's rule and only if a rule of that name existed before its Allow; and
\* when Revert is over every entry was removed, and restored iff it had one.
C12_RevertReverseOrder ==
    LET rem == SelectSeq(fwOps, LAMBDA o : o[1] = "remove")
        n == Len(fwAllowed)
    IN  /\ Len(rem) <= n
        /\ \A k \in 1..Len(rem) : rem[k][2] = fwAllowed[n + 1 - k].name
        /\ \A i \in 1..Len(fwOps) :
             fwOps[i][1] = "restore" =>
                /\ i > 1 /\ fwOps[i - 1] = <<"remove", fwOps[i][2]>>
                /\ \E j \in 1..n : fwAllowed[j].name = fwOps[i][2] /\ fwAllowed[j].before.present
        /\ fwpc = "done" =>
             /\ Len(rem) = n
             /\ \A i \in 1..Len(fwOps) :
                  (/\ fwOps[i][1] = "remove"
                   /\ \E j \in 1..n : fwAllowed[j].name = fwOps[i][2]
                                       /\ fwAllowed[j].before.present) =>
                     (i < Len(fwOps) /\ fwOps[i + 1] = <<"restore", fwOps[i][2]>>)

C12_Witness ==
    /\ fwpc = "done" /\ Len(fwAllowed) = 3
    /\ fwAllowed[1].before.present /\ ~fwAllowed[2].before.present
    /\ Len(fwOps) >= 4

\* --------------------------------------------------------------------- C13
\* C13: when every firewall call has succeeded and Revert is over, a name that
\* had no rule before has none, and a name that had one has a rule equal to
\* the original in the eleven fields; names never passed to Allow are as before.
C13_AllowRevertRestoresRules ==
    (fwpc = "done" /\ ~fwFailed) =>
        \A nm \in RuleNames :
            /\ fwRules[nm].present = fw0[nm].present
            /\ fwRules[nm].fields = fw0[nm].fields

C13_Witness ==
    /\ fwpc = "done" /\ ~fwFailed
    /\ \E i \in 1..Len(fwAllowed) :
         /\ fwAllowed[i].before.present
         /\ fwRules[fwAllowed[i].name].fields = "user"
    /\ \E i \in 1..Len(fwAllowed) :
         /\ ~fwAllowed[i].before.present
         /\ ~fwRules[fwAllowed[i].name].present

\* --------------------------------------------------------------------- C14
\* C14: a family with no address in the server list keeps its NameServer value
\* in every state (Apply does not write it, Revert neither writes nor deletes
\* it); once Apply has succeeded, a family is marked touched exactly when the
\* list holds an address of it, and then its value is the one Apply wrote.
C14_WrittenIffFamilyInList ==
    LET has(f) == \E i \in 1..Len(cfg.dns) : cfg.dns[i] = (IF f = "v4" THEN "a4" ELSE "a6")
    IN  \A f \in Families :
          /\ ~has(f) => nameServer[f] = os0.nameServer[f]
          /\ dnsSt.applied =>
               /\ dnsSt.touched[f] = has(f)
               /\ has(f) => nameServer[f] = NsValue("vpn")

C14_Witness ==
    /\ cmpc = "ret" /\ ~threw
    /\ cfg.dns = <<"a6">>
    /\ os0.nameServer["v4"] = NsValue("orig")
    /\ nameServer["v4"] = NsValue("orig")

\* --------------------------------------------------------------------- C15
\* C15: for an empty server list and for a list holding, at any position, a
\* string that is neither an IPv4 nor an IPv6 literal, Apply never succeeds:
\* it ends with the exception, and the NameServer values stay as they were.
C15_InvalidListRejectedUnwritten ==
    LET bad == \/ cfg.dns = << >>
               \/ \E i \in 1..Len(cfg.dns) : cfg.dns[i] \notin {"a4", "a6"}
    IN  bad =>
          /\ cmpc \in {"dnsctor", "dnsapply", "thrown", "unwind", "terminated"}
          /\ cmpc \in {"unwind", "terminated"} => threw
          /\ ~dnsSt.applied
          /\ nameServer = os0.nameServer

C15_Witness ==
    cmpc = "thrown" /\ cfg.dns = <<"a4", "a6", "bad">> /\ nameServer = os0.nameServer

\* --------------------------------------------------------------------- C16
\* C16: once Apply has succeeded and Revert has run, no registry call having
\* failed, each NameServer value is what it was before: absent if it was
\* absent, present with the original text (the empty text included) if it was
\* present.
C16_ApplyRevertRestoresRegistry ==
    (cmpc = "ret" /\ ~threw /\ ~osFailed) => nameServer = os0.nameServer

\* --------------------------------------------------------------------- C17
\* C17: when a config is rejected for a config reason (an exception of the
\* parsing, of SetAddressPlan or of DNS::Apply, no OS call having failed), no
\* OS state has been changed: the firewall rule, the adapter, the NameServer
\* values and the routes are those of before, and no adapter handle is held.
C17_RejectedConfigNoSideEffects ==
    (cmpc = "thrown" /\ ~osFailed) =>
        /\ fwRule = os0.fwRule
        /\ adapterPresent = os0.adapterPresent
        /\ tun.handle = "none"
        /\ nameServer = os0.nameServer
        /\ routes = os0.routes

\* --------------------------------------------------------------------- C18
\* C18: a config with an mtu below 576 or above 9200 never gets past the
\* validation, and a config that is valid but for its mtu is not rejected when
\* the mtu is in [576, 9200]: with no OS call failed no exception is raised.
C18_MtuRejectedExactlyOutsideRange ==
    /\ (cfg.mtu < 576 \/ cfg.mtu > 9200) => ctorLog = << >>
    /\ (/\ cmpc = "thrown" /\ ~osFailed
        /\ cfg.jsonOk /\ cfg.planValid
        /\ cfg.dns # << >> /\ ~DnsHasInvalid(cfg.dns)) =>
           (cfg.mtu < 576 \/ cfg.mtu > 9200)

\* --------------------------------------------------------------------- C19
\* C19: a burst of accepted kicks gets one reapply() call, after its last
\* kick. Whenever reapply() is invoked, at least one kick was accepted since
\* the call before, the last accepted kick is at least debounce old, and the
\* call before is at least debounce old, whatever notifications of the
\* configurator's own writes arrived meanwhile; and a burst in progress leads
\* to a reapply() call unless the watcher is stopped.
ReapplyInvoked == wpc = "debounce" /\ wpc' = "reapply"
BurstInProgress == wpc = "debounce" \/ (wpc = "wait" /\ h_kick)
C19_OneReapplyPerBurst ==
    /\ [][ReapplyInvoked => /\ burstKicks >= 1
                            /\ sinceKick >= DebounceTicks
                            /\ sinceReapply >= DebounceTicks]_vars
    /\ (BurstInProgress ~> (wpc = "reapply" \/ h_stop))
C19_Witness ==
    /\ wpc = "reapply" /\ sinceReapply = 0
    /\ served >= 2
    /\ ownPending = "pending" /\ suppressLeft > 0

\* --------------------------------------------------------------------- C20
\* C20: reapply() is never invoked unless an external change was accepted
\* since the call before: the notifications of its own writes are all dropped.
C20_NoReapplyWithoutExternalChange ==
    [][ReapplyInvoked => extSince]_vars

\* --------------------------------------------------------------------- C21
\* C21: when ConfigureNetwork for the server's family finds no best route to
\* the server and no default route off the adapter, and no OS call fails, it
\* leaves the forwarding table as it is (no split-default is installed) and
\* returns; reapply() then calls ConfigureNetwork for IPv6 if the call was
\* the IPv4 one, and is over if it was the IPv6 one (IPv4 has been done).
C21_NoRouteNoSplitDefault ==
    [][(/\ wpc = "cfg_pin" /\ BestRoutes(wfam) = {} /\ FallbackDefaults(wfam) = {}
        /\ wpc' # wpc /\ ~osFailed')
         => /\ routes' = routes
            /\ wfam = "v4" => (wpc' = "cfg_if" /\ wfam' = "v6")
            /\ wfam = "v6" => wpc' = "wait"]_vars
C21_Witness ==
    /\ wpc = "cfg_if" /\ wfam = "v6" /\ cfg.serverFam = "v4" /\ ~osFailed
    /\ iface["v4"] # IfaceDefault
    /\ \A r \in routes : r.fam # "v4"

\* --------------------------------------------------------------------- C22
\* C22: a Revert that got past the baseline check has run all three steps
\* when it ends, and it ends without an error only if no OS operation of it
\* failed: no delete of a split-default of either family, no delete of the
\* pin, no restore of metric or MTU of a captured family.
C22_RevertFailsIffAStepFailed ==
    (rbpc \in {"idle", "gone"} /\ rbResult \in {"ok", "runtime_error"})
      => /\ rbTried = {"split", "pin", "base"}
         /\ rbResult = "ok" => rbFails = {}

C29_SplitDefaultsGoneBeforePin ==
    [][(rbpc = "pin" /\ \E r \in routes \ routes' : IsPinnedToServer(r, cfg.serverFam))
         => \A r \in routes : ~IsOurSplitDefault(r, r.fam)]_vars

\* --------------------------------------------------------------------- C30
\* C30: with an IPv4 server and a valid address plan, once reapply() has run
\* to its end with the IPv4 pin made and no OS call failed, the IPv6
\* split-defaults ::/1 and 8000::/1 are in the table on the adapter next to
\* the IPv4 ones.
C30_V6SplitDefaultsWithV4Server ==
    (/\ cfg.serverFam = "v4" /\ cfg.planValid
     /\ wpc = "wait" /\ ~osFailed
     /\ \A h \in {"lo", "hi"} : SplitRoute("v4", h) \in routes)
      => \A h \in {"lo", "hi"} : SplitRoute("v6", h) \in routes

\* --------------------------------------------------------------------- C23
\* C23: once the worker of the CLI process has finished (ClientMain returned,
\* 1 after a failed initialization or the value of Serve), the process
\* eventually terminates.
C23_CliTerminatesAfterWorker ==
    (\E w \in Workers : lpc[w] = "done") ~> ~Alive

\* --------------------------------------------------------------------- C24
\* C24: after a Stop that returned 0, while IsRunning() still returns 1, with
\* every thread scheduled and a Serve that returns once the flag is 0,
\* IsRunning() eventually returns 0 in the
\* running process, unless an exception that left ClientMain during
\* initialization has ended the process.
C24_StoppedAfterStop ==
    (cret["c1"] = <<"Stop", 0>> /\ IsRunning = 1)
      ~> \/ Alive /\ IsRunning = 0
         \/ ~Alive /\ \E w \in Workers : lpc[w] = "init"

\* --------------------------------------------------------------------- C25
\* C25: entries_ never holds two entries of the same protocol and port, and an
\* Allow of a protocol and port that entries_ already holds returns normally
\* and leaves the rule set, entries_ and applied_ as they were.
C25_AllowIdempotent ==
    /\ [](\A i, j \in 1..Len(entries_) :
            (entries_[i].proto = entries_[j].proto /\ entries_[i].port = entries_[j].port)
               => i = j)
    /\ [][(/\ fwpc = "idle" /\ fwpc' = "idle" /\ fwCall' # << >>
           /\ \E i \in 1..Len(entries_) :
                 entries_[i].proto = fwCall'[1] /\ entries_[i].port = fwCall'[2])
            => /\ fwCall'[3] = "present"
               /\ fwRules' = fwRules /\ entries_' = entries_ /\ applied_' = applied_]_vars

C25_Witness ==
    /\ fwpc = "idle" /\ fwCall = <<"UDP", 443, "present">>
    /\ Len(entries_) = 2 /\ entries_[1].proto = "UDP" /\ entries_[1].port = 443

\* --------------------------------------------------------------------- C26
\* C26: when Revert is over it has visited every entry, whatever failed on the
\* way, and it has raised the runtime error exactly when a step of its loop
\* (the removal of an installed rule, the re-insertion of a snapshot) failed.
C26_RevertRaisesIffStepFailed ==
    fwpc = "done" =>
        /\ fwIt = Len(fwAllowed) + 1
        /\ fwResult = "runtime_error" <=> fwStepFailed

\* --------------------------------------------------------------------- C27
\* C27: as long as the NameServer value of a family differs from its original,
\* the DNS object holds that family's snapshot: the family is marked touched
\* and the present bit and text are the original ones.
C27_SnapshotKeptWhileChanged ==
    \A f \in Families :
        nameServer[f] # os0.nameServer[f] =>
            /\ dnsSt.touched[f]
            /\ dnsSt.prevPresent[f] = os0.nameServer[f].present
            /\ dnsSt.prev[f] = os0.nameServer[f].text

\* --------------------------------------------------------------------- C40
\* C40: once the DNS object is destroyed after an Apply that raised an error
\* on a valid server list (a registry write failed part-way), every NameServer
\* value is the one its snapshot gives: deleted if it was absent, written back
\* if it was present.
C40_PartialApplyRestored ==
    (/\ cfg.dns # << >> /\ ~DnsHasInvalid(cfg.dns)
     /\ threw /\ \E i \in 1..Len(dtorLog) : dtorLog[i] = "dns")
      => \A f \in Families :
            \/ nameServer[f] = os0.nameServer[f]
            \/ nameServer[f] = IF os0.nameServer[f].present
                                 THEN WriteNameServer(os0.nameServer[f].text)
                                 ELSE NsAbsent

\* --------------------------------------------------------------------- C39
\* C39: an Allow that raises an error leaves every firewall rule as it was
\* before the call, or has recorded an entry that holds the snapshot of the
\* rule it changed.
C39_FailedAllowKeepsRules ==
    [][(/\ fwpc = "idle" /\ fwpc' = "idle" /\ fwCall' # << >>
        /\ fwCall'[3] \in {"failed", "invalid_argument"})
         => \A n \in RuleNames :
               \/ fwRules'[n] = fwRules[n]
               \/ \E i \in 1..Len(entries_') :
                     /\ entries_'[i].name = n
                     /\ entries_'[i].snapshot = ReadSnapshot(fwRules[n])]_vars

\* --------------------------------------------------------------------- C31
\* C31: when the ConfigureNetwork call of reapply() for IPv4 ends, returned or
\* thrown, the call for IPv6 starts; when the call for IPv6 ends, returned or
\* thrown, the watcher thread is back in its outer wait; the thread ends only
\* on the stop event, and in the outer wait a kick still wakes it.
C31_FamiliesIndependent ==
    /\ [][(wres["v4"] = "none" /\ wres'["v4"] # "none")
            => (wpc' = "cfg_if" /\ wfam' = "v6")]_vars
    /\ [][(wres["v6"] = "none" /\ wres'["v6"] # "none")
            => (wres["v4"] # "none" /\ wpc' = "wait")]_vars
    /\ [][(wpc # "exited" /\ wpc' = "exited")
            => (h_stop /\ wpc \in {"wait", "debounce"})]_vars
    /\ []((Alive /\ wpc = "wait" /\ h_kick /\ ~h_stop) => ENABLED WKickWake)

C31_Witness ==
    /\ wpc = "debounce" /\ wres["v4"] = "threw" /\ wres["v6"] \in {"ok", "threw"}

\* --------------------------------------------------------------------- C32
\* C32: a call that found the ring empty returns 0; a call that fetched a
\* packet larger than the buffer returns -1 and copies nothing; any other call
\* that fetched a packet returns its size with the packet copied; a call that
\* fetched nothing copies nothing; and a packet, once fetched, is released
\* once, before the call returns.
C32_ReceiveFromNet ==
    /\ rxReleased <= rxFetched /\ rxFetched <= rxReleased + 1
    /\ rxpc = "idle" => rxReleased = rxFetched
    /\ (rxpc = "idle" /\ rxRet # << >>) =>
          /\ rxEmpty => (rxPkt = 0 /\ rxRet = <<0>>)
          /\ rxPkt = 0 => (rxRet = <<0>> /\ rxBuf = 0)
          /\ (rxPkt # 0 /\ rxPkt > rxSize) => (rxRet = <<-1>> /\ rxBuf = 0)
          /\ (rxPkt # 0 /\ rxPkt <= rxSize) => (rxRet = <<rxPkt>> /\ rxBuf = rxPkt)

C32_Witness ==
    /\ rxpc = "idle" /\ rxFetched = 3 /\ rxReleased = 3
    /\ rxPkt = 2 /\ rxSize = 2 /\ rxRet = <<2>> /\ rxBuf = 2

\* --------------------------------------------------------------------- C33
\* C33: with the thread scheduled and reapply() returning, a Stop that waits
\* for the thread returns; from its first step on the notifications are
\* cancelled and the stop event is set; once it has returned the thread is
\* over, so no reapply() runs or is invoked again; a thread in the debounce
\* wait with the stop event set does not go on to reapply(); and after Stop
\* has returned nothing of the watcher changes, a second Stop included.
C33_StopTerminatesAndSilences ==
    /\ (stoppc = "waiting") ~> (stoppc = "returned")
    /\ [](stoppc # "none" => (~subscribed /\ h_stop))
    /\ [](stoppc = "returned" => wpc = "exited")
    /\ [][(wpc = "debounce" /\ h_stop) => wpc' \in {"debounce", "exited"}]_vars
    /\ [][stoppc = "returned"
            => UNCHANGED <<wpc, h_stop, h_kick, subscribed, stoppc, served>>]_vars

C33_Witness == stoppc = "returned" /\ wpc = "exited" /\ burstKicks > 0 /\ served > 0

\* --------------------------------------------------------------------- C34
\* C34: at most one worker thread is inside ClientMain at any time.
C34_OneWorkerInClientMain ==
    Cardinality({w \in Workers : ~LTornDown(w)}) <= 1

\* --------------------------------------------------------------------- C35
\* C35: Start is never about to assign the new thread to a g_thread it has
\* found joinable, and no two joiners are about to join the same worker.
C35_EachWorkerJoinedOnce ==
    /\ \A c \in Callers : cpc[c] = "start_assign" => ~csaw[c]
    /\ \A j1, j2 \in Joiners :
          (jpc[j1] = "join" /\ jpc[j2] = "join" /\ jtarget[j1] = jtarget[j2]) => j1 = j2

\* --------------------------------------------------------------------- C36
\* C36: when every worker has returned from ClientMain, Start has returned,
\* no Stop call has been made and IsRunning() returns 1, then, with every
\* thread scheduled, IsRunning() eventually returns 0 unless a Stop is called
\* or the process ends.
C36_StartedBitClearedAfterWorker ==
    (/\ Alive /\ ~stopSeen /\ IsRunning = 1 /\ cpc["c1"] = "idle"
     /\ \A w \in Workers : lpc[w] \in {"none", "done"}
     /\ \E w \in Workers : lpc[w] = "done")
      ~> (IsRunning = 0 \/ stopSeen \/ ~Alive)

\* --------------------------------------------------------------------- C37
\* C37: once NetworkRollback::Revert has started in a run where the NetWatcher
\* was constructed, the watcher has been destroyed and its thread has returned;
\* from then on no ConfigureNetwork step runs and no step adds a split-default
\* or pinned route.
RevertStarted ==
    \/ cmpc \in {"rb_pin", "rb_base"}
    \/ \E i \in 1..Len(dtorLog) : dtorLog[i] = "rollback"

C37_WatcherJoinedBeforeRevert ==
    /\ []((RevertStarted /\ \E i \in 1..Len(ctorLog) : ctorLog[i] = "nw")
            => (/\ wpc = "exited"
                /\ \E i \in 1..Len(dtorLog) : dtorLog[i] = "nw"))
    /\ [][(RevertStarted \/ RevertStarted')
            => (/\ wpc' = wpc
                /\ \A r \in routes' \ routes :
                      ~(IsOurSplitDefault(r, r.fam) \/ IsPinnedToServer(r, cfg.serverFam)))]_vars

C37_Witness ==
    /\ \E i \in 1..Len(dtorLog) : dtorLog[i] = "rollback"
    /\ \E i \in 1..Len(ctorLog) : ctorLog[i] = "nw"
    /\ wpc = "exited" /\ wres["v4"] = "ok"
    /\ ~\E r \in routes : IsOurSplitDefault(r, r.fam) \/ IsPinnedToServer(r, cfg.serverFam)

\* --------------------------------------------------------------------- C38
\* C38: whatever reapply() calls and route losses have happened, no pinned
\* host route to the server has our adapter as its interface.
C38_PinNeverThroughAdapter ==
    \A r \in routes : IsPinnedToServer(r, r.fam) => r.ifc # "tun"
====
